---- MODULE Spec2Model ----
(***************************************************************************)
(* The cache-refresh scheduler of the Cache Refresher & Monitor extension  *)
(* (src/unnamed/part_000, v2.2.1; the same scheduler is repeated in        *)
(* src/index.js as v2.1.0 and v3.0.0).                                     *)
(*                                                                         *)
(* The program runs on one JavaScript event loop.  Every action below is   *)
(* one run-to-completion callback: a host event handler, a settings        *)
(* handler, a timer callback, or the continuation of the awaited           *)
(* generateQuietPrompt promise.  The event loop's live timers and the      *)
(* requests in flight are part of the state; time itself is abstracted, so *)
(* a live timer may fire at any moment.                                    *)
(***************************************************************************)
EXTENDS Integers, FiniteSets, Sequences, TLC

\* ---------------------------------------------------------------- bounds
MaxCalls == 3               \* processCacheUsage calls between two resets (SpecMonitor)
MaxArrivals == 103          \* processCacheUsage calls between two resets (SpecHistory)
MaxSessionCalls == 2        \* processCacheUsage calls between two resets (SpecSession)
MaxStreamLen == 4           \* pieces of text one streamed response delivers
ChunkLen == 2               \* pieces of text one read of the stream delivers at most
MaxStreams == 1             \* streamed responses intercepted in one run
MissWarningBound == 3       \* settings.consecutiveMissWarning is drawn from 1..MissWarningBound
MaxRefreshesBound == 3      \* settings.maxRefreshes is drawn from 1..MaxRefreshesBound
MaxInFlight == 2            \* generateQuietPrompt promises pending at once
MaxBackoff == 2             \* failure-backoff timeouts pending at once
MaxChatLen == 2             \* ctx.chat.length is drawn from 0..MaxChatLen
MaxOverrun == 1             \* how far the countdown may run below zero
IntervalSeconds == 2        \* settings.interval, in seconds
MaxSends == 4               \* refresh-sends followed after one capture when all fail
MaxRequests == 2            \* API requests the host makes in one run
MaxNesting == 7             \* levels of wrapping around the usage of a response

\* ------------------------------------------------------ program constants
BACKOFF_MS == 5000
MS_PER_SECOND == 1000

HISTORY_LIMIT == 100
TOKENS_PER_MILLION == 1000000

interval == IntervalSeconds * MS_PER_SECOND

\* Conversation identities getCurrentChatId() can return; NoChat is null.
ChatIds == {"A", "B"}
NoChat == "null"
NotExhausted == "none"
NoRequests == [made |-> 0, ended |-> 0]
ChatIdOrNull == ChatIds \cup {NoChat}

\* Timer handles; NoTimer is null.
NoTimer == 0
TimerIds == 1..(MaxBackoff + 3)

\* window.fetch values: the function in place before setup, and the wrapper.
NativeFetch == "native"
InterceptorFetch == "interceptor"
NoFetch == "null"

\* lastPromptData = null
NoData == [chatId |-> NoChat, messageCount |-> 0]

VARIABLES
    enabled,            \* settings.enabled
    maxRefreshes,       \* settings.maxRefreshes
    activeChat,         \* what the host context currently identifies as the chat
    refreshTimer,       \* handle of the last fire timeout (may be stale once fired)
    countdownInterval,  \* handle of the countdown interval
    secondsRemaining,
    refresherActive,
    refreshCount,
    lastPromptData,
    currentChatId,
    timeouts,           \* event loop: live setTimeout timers
    intervals,          \* event loop: live setInterval timers
    pending,            \* event loop: generateQuietPrompt calls in flight, per chat sent for
    limitNotices,       \* showNotification('Cache refresh limit reached') calls so far
    stopRequested,      \* observation: Stop was clicked and no capture has run since
    generating,         \* host: a user generation has started and not yet ended or stopped
    eventListenersRegistered,
    settingsMounted,    \* the settings panel (checkbox, stop button) is in the DOM
    windowFetch,        \* what window.fetch currently is
    originalFetch,      \* the saved fetch, NoFetch when null
    monitorEnabled,     \* settings.monitorEnabled
    consecutiveMissWarning, \* settings.consecutiveMissWarning
    pricingModel,       \* settings.pricingModel
    sessionStats,
    lastCacheHitTime,   \* NoTime when null
    lastToast,          \* the notification the last monitor handler asked for
    callLog,            \* observation: every processCacheUsage call since the last reset
    streamOpen,         \* a handleStreamingResponse call is in its read loop
    buffer,             \* its buffer: the text after the last newline
    usageData,          \* its accumulator, NullObject when null
    streamText,         \* observation: the text the reader has delivered so far
    streams,            \* observation: streamed responses intercepted so far
    parsed,             \* the object handed to extractUsageFromObject
    extracted,          \* what it returned, Pending before the call
    apiRequests,        \* host: API responses received through window.fetch (made)
                        \* and generations of theirs that have ended (ended)
    exhaustedFor,       \* history: the chat whose budget ran out and that has been
                        \* the active one ever since, NotExhausted otherwise
    sendsSinceCapture   \* history: generateQuietPrompt calls since the last capture

schedulerVars == <<enabled, maxRefreshes, activeChat, refreshTimer, countdownInterval,
                   secondsRemaining, refresherActive, refreshCount, lastPromptData,
                   currentChatId, timeouts, intervals, pending, limitNotices,
                   stopRequested>>

setupVars == <<eventListenersRegistered, settingsMounted, windowFetch, originalFetch>>

\* Everything the scheduler's handlers never write (generating is listed apart:
\* the generation-ended event that runs capturePromptData ends the generation).
monitorSettings == <<monitorEnabled, consecutiveMissWarning, pricingModel>>
monitorVars == <<monitorSettings, sessionStats, lastCacheHitTime, lastToast, callLog>>

streamVars == <<streamOpen, buffer, usageData, streamText, streams>>
extractVars == <<parsed, extracted>>
interceptVars == <<streamVars, extractVars, apiRequests>>

outsideSetup == <<monitorVars, interceptVars>>
outsideScheduler == <<setupVars, outsideSetup>>
\* History variables: no handler reads or writes them.  The specifications of the
\* program leave them alone; SpecExhaustion and SpecFailing record into them.
historyVars == <<exhaustedFor, sendsSinceCapture>>

outsideMonitor == <<schedulerVars, generating, historyVars>>

vars == <<schedulerVars, generating, outsideScheduler, historyVars>>

settingsVars == <<enabled, maxRefreshes>>
timerVars == <<refreshTimer, countdownInterval, secondsRemaining, refresherActive,
               timeouts, intervals>>

\* ---------------------------------------------- cache monitor constants
\* PRICING_MODELS, in cents per million tokens.
PRICING_MODELS ==
    [m \in {"claude-sonnet-4", "claude-sonnet-4.5", "claude-opus-4", "claude-opus-4.5",
            "claude-haiku-4.5", "claude-3.5-sonnet", "claude-3.5-haiku", "claude-3-opus"} |->
        CASE m \in {"claude-sonnet-4", "claude-sonnet-4.5", "claude-3.5-sonnet"} ->
                 [input |-> 300, cacheWrite |-> 375, cacheRead |-> 30]
          [] m \in {"claude-opus-4", "claude-opus-4.5", "claude-3-opus"} ->
                 [input |-> 1500, cacheWrite |-> 1875, cacheRead |-> 150]
          [] OTHER ->
                 [input |-> 80, cacheWrite |-> 100, cacheRead |-> 8]]

DefaultPricingModel == "claude-sonnet-4"
DEFAULT_MISS_WARNING == 3

\* Values the pricing select offers; "custom" is not a key of the table.
PricingChoices == {"claude-sonnet-4", "claude-opus-4", "custom"}

NoTime == 0

\* JavaScript null and undefined where a number is expected, and null where an
\* object is expected.
JsNull == -1
JsUndefined == -2
NullObject == [isNull |-> TRUE]
Pending == [pending |-> TRUE]

EmptyStats ==
    [requests |-> 0, hits |-> 0, misses |-> 0, cacheReadTokens |-> 0,
     cacheWriteTokens |-> 0, inputTokens |-> 0, outputTokens |-> 0, savings |-> 0,
     consecutiveMisses |-> 0, history |-> <<>>]

\* -------------------------------------------------------------- helpers
getCurrentChatId == activeChat

InFlight == pending["A"] + pending["B"] + pending[NoChat]

RefreshTimeouts(ts) == {t \in ts : t.kind = "refresh"}
BackoffTimeouts(ts) == {t \in ts : t.kind = "backoff"}

\* setTimeout / setInterval return a handle no live timer and no kept handle uses.
FreshId(used) == CHOOSE i \in TimerIds : i \notin used /\ \A j \in TimerIds : j < i => j \in used

clearTimeout(ts, handle) == {t \in ts : t.id # handle}
clearInterval(ivs, handle) == ivs \ {handle}

\* stopRefreshTimer(), called with the event loop's timeouts as they are at the call.
stopRefreshTimer(ts) ==
    /\ timeouts' = clearTimeout(ts, refreshTimer)
    /\ intervals' = clearInterval(intervals, countdownInterval)
    /\ refreshTimer' = NoTimer
    /\ countdownInterval' = NoTimer
    /\ secondsRemaining' = 0
    /\ refresherActive' = FALSE

\* Variant of startRefreshTimer that arms without looking at the cap.
startRefreshTimerNoCap(count, ts) ==
    IF ~enabled
    THEN stopRefreshTimer(ts)
    ELSE LET ts1 == clearTimeout(ts, refreshTimer)
             ivs1 == clearInterval(intervals, countdownInterval)
             cid == FreshId({t.id : t \in ts1} \cup ivs1)
             rid == FreshId({t.id : t \in ts1} \cup ivs1 \cup {cid})
         IN /\ refresherActive' = TRUE
            /\ secondsRemaining' = interval \div MS_PER_SECOND
            /\ intervals' = ivs1 \cup {cid}
            /\ countdownInterval' = cid
            /\ timeouts' = ts1 \cup {[id |-> rid, kind |-> "refresh", delay |-> interval]}
            /\ refreshTimer' = rid

\* Variant of startRefreshTimer that does not call stopRefreshTimer() first.
startRefreshTimerNoCancel(count, ts) ==
    IF ~enabled \/ count >= maxRefreshes
    THEN /\ refresherActive' = FALSE
         /\ timeouts' = ts
         /\ UNCHANGED <<refreshTimer, countdownInterval, secondsRemaining, intervals>>
    ELSE LET cid == FreshId({t.id : t \in ts} \cup intervals)
             rid == FreshId({t.id : t \in ts} \cup intervals \cup {cid})
         IN /\ refresherActive' = TRUE
            /\ secondsRemaining' = interval \div MS_PER_SECOND
            /\ intervals' = intervals \cup {cid}
            /\ countdownInterval' = cid
            /\ timeouts' = ts \cup {[id |-> rid, kind |-> "refresh", delay |-> interval]}
            /\ refreshTimer' = rid

\* startRefreshTimer(), called with refreshCount and the timeouts as they are at the call.
startRefreshTimer(count, ts) ==
    IF ~enabled \/ count >= maxRefreshes
    THEN stopRefreshTimer(ts)
    ELSE LET ts1 == clearTimeout(ts, refreshTimer)
             ivs1 == clearInterval(intervals, countdownInterval)
             cid == FreshId({t.id : t \in ts1} \cup ivs1)
             rid == FreshId({t.id : t \in ts1} \cup ivs1 \cup {cid})
         IN /\ refresherActive' = TRUE
            /\ secondsRemaining' = interval \div MS_PER_SECOND
            /\ intervals' = ivs1 \cup {cid}
            /\ countdownInterval' = cid
            /\ timeouts' = ts1 \cup {[id |-> rid, kind |-> "refresh", delay |-> interval]}
            /\ refreshTimer' = rid

\* ------------------------------------------------------------------ Init
\* Module state as the declarations leave it; the stored settings and the open
\* chat are chosen by Init.
InitIdle ==
    /\ enabled = TRUE
    /\ refreshTimer = NoTimer
    /\ countdownInterval = NoTimer
    /\ secondsRemaining = 0
    /\ refresherActive = FALSE
    /\ refreshCount = 0
    /\ lastPromptData = NoData
    /\ currentChatId = NoChat
    /\ timeouts = {}
    /\ intervals = {}
    /\ pending = [c \in ChatIdOrNull |-> 0]
    /\ limitNotices = 0
    /\ stopRequested = FALSE
    /\ exhaustedFor = NotExhausted
    /\ sendsSinceCapture = 0
    /\ generating = FALSE
    /\ apiRequests = NoRequests
    /\ eventListenersRegistered = TRUE
    /\ settingsMounted = TRUE
    /\ windowFetch = InterceptorFetch
    /\ originalFetch = NativeFetch
    /\ monitorEnabled = TRUE
    /\ pricingModel = DefaultPricingModel
    /\ sessionStats = EmptyStats
    /\ lastCacheHitTime = NoTime
    /\ lastToast = "none"
    /\ callLog = <<>>
    /\ streamOpen = FALSE
    /\ buffer = <<>>
    /\ usageData = NullObject
    /\ streamText = <<>>
    /\ streams = 0
    /\ extracted = Pending

Init ==
    /\ InitIdle
    /\ maxRefreshes \in 1..MaxRefreshesBound
    /\ activeChat \in ChatIdOrNull
    /\ consecutiveMissWarning = DEFAULT_MISS_WARNING
    /\ parsed = NullObject

\* --------------------------------------------------------------- actions

\* The host moves to another conversation (what getCurrentChatId() reads changes).
hostSwitchChat(c) ==
    /\ UNCHANGED <<generating, outsideScheduler>>
    /\ c # activeChat
    /\ activeChat' = c
    /\ UNCHANGED <<settingsVars, timerVars, refreshCount, lastPromptData, currentChatId,
                   pending, limitNotices, stopRequested>>

\* A capture that does not look at settings.enabled.
capturePromptDataIgnoresDisabled(len) ==
    /\ eventListenersRegistered
    /\ generating' = FALSE
    /\ UNCHANGED outsideScheduler
    /\ stopRequested' = FALSE
    /\ IF len = 0
       THEN UNCHANGED <<timerVars, refreshCount, lastPromptData, currentChatId>>
       ELSE LET newChatId == getCurrentChatId
                count == IF newChatId # currentChatId THEN 0 ELSE refreshCount
            IN /\ refreshCount' = count
               /\ currentChatId' = newChatId
               /\ lastPromptData' = [chatId |-> newChatId, messageCount |-> len]
               /\ startRefreshTimer(count, timeouts)
    /\ UNCHANGED <<settingsVars, activeChat, pending, limitNotices>>

\* A capture that carries the attempt count over to a new conversation.
capturePromptDataKeepsCount(len) ==
    /\ eventListenersRegistered
    /\ generating' = FALSE
    /\ UNCHANGED outsideScheduler
    /\ stopRequested' = FALSE
    /\ IF ~enabled \/ len = 0
       THEN UNCHANGED <<timerVars, refreshCount, lastPromptData, currentChatId>>
       ELSE /\ refreshCount' = refreshCount
            /\ currentChatId' = getCurrentChatId
            /\ lastPromptData' = [chatId |-> getCurrentChatId, messageCount |-> len]
            /\ startRefreshTimer(refreshCount, timeouts)
    /\ UNCHANGED <<settingsVars, activeChat, pending, limitNotices>>

\* GENERATION_ENDED -> onGenerationEnded -> capturePromptData; len is ctx.chat.length.
capturePromptData(len) ==
    /\ eventListenersRegistered
    /\ generating' = FALSE
    /\ UNCHANGED outsideScheduler
    /\ stopRequested' = FALSE
    /\ IF ~enabled \/ len = 0
       THEN UNCHANGED <<timerVars, refreshCount, lastPromptData, currentChatId>>
       ELSE LET newChatId == getCurrentChatId
                count == IF newChatId # currentChatId THEN 0 ELSE refreshCount
            IN /\ refreshCount' = count
               /\ currentChatId' = newChatId
               /\ lastPromptData' = [chatId |-> newChatId, messageCount |-> len]
               /\ startRefreshTimer(count, timeouts)
    /\ UNCHANGED <<settingsVars, activeChat, pending, limitNotices>>

\* Variant of sendCacheRefresh without the conversation-identity guard.
sendCacheRefreshNoChatGuard(t) ==
    /\ UNCHANGED <<generating, outsideScheduler>>
    /\ t \in RefreshTimeouts(timeouts)
    /\ LET ts == timeouts \ {t}
       IN IF ~enabled \/ lastPromptData = NoData
          THEN /\ stopRefreshTimer(ts)
               /\ UNCHANGED <<pending, limitNotices>>
          ELSE IF refreshCount >= maxRefreshes
          THEN /\ limitNotices' = limitNotices + 1
               /\ stopRefreshTimer(ts)
               /\ UNCHANGED pending
          ELSE /\ InFlight < MaxInFlight
               /\ pending' = [pending EXCEPT ![lastPromptData.chatId] = @ + 1]
               /\ timeouts' = ts
               /\ UNCHANGED <<refreshTimer, countdownInterval, secondsRemaining,
                              refresherActive, intervals, limitNotices>>
    /\ UNCHANGED <<settingsVars, activeChat, refreshCount, lastPromptData, currentChatId,
                   stopRequested>>

\* The fire timeout t elapses: sendCacheRefresh() up to its await.
sendCacheRefresh(t) ==
    /\ UNCHANGED <<generating, outsideScheduler>>
    /\ t \in RefreshTimeouts(timeouts)
    /\ LET ts == timeouts \ {t}
       IN IF ~enabled \/ lastPromptData = NoData
          THEN /\ stopRefreshTimer(ts)
               /\ UNCHANGED <<pending, limitNotices>>
          ELSE IF refreshCount >= maxRefreshes
          THEN /\ limitNotices' = limitNotices + 1
               /\ stopRefreshTimer(ts)
               /\ UNCHANGED pending
          ELSE IF getCurrentChatId # lastPromptData.chatId
          THEN /\ stopRefreshTimer(ts)
               /\ UNCHANGED <<pending, limitNotices>>
          ELSE /\ InFlight < MaxInFlight
               /\ pending' = [pending EXCEPT ![lastPromptData.chatId] = @ + 1]
               /\ timeouts' = ts
               /\ UNCHANGED <<refreshTimer, countdownInterval, secondsRemaining,
                              refresherActive, intervals, limitNotices>>
    /\ UNCHANGED <<settingsVars, activeChat, refreshCount, lastPromptData, currentChatId,
                   stopRequested>>

\* generateQuietPrompt resolves: the rest of the try block of sendCacheRefresh().
sendResolved(c) ==
    /\ UNCHANGED <<generating, outsideScheduler>>
    /\ pending[c] > 0
    /\ pending' = [pending EXCEPT ![c] = @ - 1]
    /\ refreshCount' = refreshCount + 1
    /\ startRefreshTimer(refreshCount + 1, timeouts)
    /\ UNCHANGED <<settingsVars, activeChat, lastPromptData, currentChatId, limitNotices,
                   stopRequested>>

\* Variant of sendRejected that spends the attempt budget on a failure.
sendRejectedCounts(c) ==
    /\ UNCHANGED <<generating, outsideScheduler>>
    /\ pending[c] > 0
    /\ Cardinality(BackoffTimeouts(timeouts)) < MaxBackoff
    /\ pending' = [pending EXCEPT ![c] = @ - 1]
    /\ refreshCount' = refreshCount + 1
    /\ LET bid == FreshId({t.id : t \in timeouts} \cup intervals
                          \cup {refreshTimer, countdownInterval})
       IN timeouts' = timeouts \cup {[id |-> bid, kind |-> "backoff", delay |-> BACKOFF_MS]}
    /\ UNCHANGED <<settingsVars, activeChat, refreshTimer, countdownInterval,
                   secondsRemaining, refresherActive, intervals,
                   lastPromptData, currentChatId, limitNotices, stopRequested>>

\* generateQuietPrompt rejects: the catch block of sendCacheRefresh().
sendRejected(c) ==
    /\ UNCHANGED <<generating, outsideScheduler>>
    /\ pending[c] > 0
    /\ Cardinality(BackoffTimeouts(timeouts)) < MaxBackoff
    /\ pending' = [pending EXCEPT ![c] = @ - 1]
    /\ LET bid == FreshId({t.id : t \in timeouts} \cup intervals
                          \cup {refreshTimer, countdownInterval})
       IN timeouts' = timeouts \cup {[id |-> bid, kind |-> "backoff", delay |-> BACKOFF_MS]}
    /\ UNCHANGED <<settingsVars, activeChat, refreshTimer, countdownInterval,
                   secondsRemaining, refresherActive, intervals, refreshCount,
                   lastPromptData, currentChatId, limitNotices, stopRequested>>

\* The backoff timeout t elapses: () => settings.enabled && startRefreshTimer().
backoffElapsed(t) ==
    /\ UNCHANGED <<generating, outsideScheduler>>
    /\ t \in BackoffTimeouts(timeouts)
    /\ IF enabled
       THEN startRefreshTimer(refreshCount, timeouts \ {t})
       ELSE /\ timeouts' = timeouts \ {t}
            /\ UNCHANGED <<refreshTimer, countdownInterval, secondsRemaining,
                           refresherActive, intervals>>
    /\ UNCHANGED <<settingsVars, activeChat, refreshCount, lastPromptData, currentChatId,
                   pending, limitNotices, stopRequested>>

\* The countdown interval i ticks: secondsRemaining--.
countdownTick(i) ==
    /\ UNCHANGED <<generating, outsideScheduler>>
    /\ i \in intervals
    /\ secondsRemaining > -MaxOverrun
    /\ secondsRemaining' = secondsRemaining - 1
    /\ UNCHANGED <<settingsVars, activeChat, refreshTimer, countdownInterval,
                   refresherActive, timeouts, intervals, refreshCount, lastPromptData,
                   currentChatId, pending, limitNotices, stopRequested>>

\* Variant of resetRefresherState that forgets to stop the timers.
resetRefresherStateKeepsTimer ==
    /\ UNCHANGED timerVars
    /\ refreshCount' = 0
    /\ lastPromptData' = NoData
    /\ currentChatId' = NoChat

resetRefresherState ==
    /\ stopRefreshTimer(timeouts)
    /\ refreshCount' = 0
    /\ lastPromptData' = NoData
    /\ currentChatId' = NoChat

\* A chat-change handler that also ends the run of cache misses.
onChatChangedClearsMisses ==
    /\ eventListenersRegistered
    /\ sessionStats' = [sessionStats EXCEPT !.consecutiveMisses = 0]
    /\ UNCHANGED <<generating, setupVars, monitorSettings, lastCacheHitTime, lastToast,
                   callLog, interceptVars>>
    /\ IF getCurrentChatId # currentChatId
       THEN resetRefresherState
       ELSE UNCHANGED <<timerVars, refreshCount, lastPromptData, currentChatId>>
    /\ UNCHANGED <<settingsVars, activeChat, pending, limitNotices, stopRequested>>

\* CHAT_CHANGED -> onChatChanged.
onChatChanged ==
    /\ eventListenersRegistered
    /\ UNCHANGED <<generating, outsideScheduler>>
    /\ IF getCurrentChatId # currentChatId
       THEN resetRefresherState
       ELSE UNCHANGED <<timerVars, refreshCount, lastPromptData, currentChatId>>
    /\ UNCHANGED <<settingsVars, activeChat, pending, limitNotices, stopRequested>>

\* Click on "Stop Refresh Timer" (cache_refresh_stop).
stopClicked ==
    /\ settingsMounted
    /\ UNCHANGED <<generating, outsideScheduler>>
    /\ stopRefreshTimer(timeouts)
    /\ refreshCount' = 0
    /\ stopRequested' = TRUE
    /\ UNCHANGED <<settingsVars, activeChat, lastPromptData, currentChatId, pending,
                   limitNotices>>

\* Change of the "Enable Cache Refresher" checkbox to v.
setEnabled(v) ==
    /\ settingsMounted
    /\ UNCHANGED <<generating, outsideScheduler>>
    /\ v # enabled
    /\ enabled' = v
    /\ IF ~v THEN stopRefreshTimer(timeouts) ELSE UNCHANGED timerVars
    /\ UNCHANGED <<maxRefreshes, activeChat, refreshCount, lastPromptData, currentChatId,
                   pending, limitNotices, stopRequested>>

Next ==
    \/ (\E c \in ChatIdOrNull : hostSwitchChat(c)) /\ UNCHANGED historyVars
    \/ (\E len \in 0..MaxChatLen : capturePromptData(len)) /\ UNCHANGED historyVars
    \/ (\E t \in timeouts : sendCacheRefresh(t)) /\ UNCHANGED historyVars
    \/ (\E c \in ChatIdOrNull : sendResolved(c)) /\ UNCHANGED historyVars
    \/ (\E c \in ChatIdOrNull : sendRejected(c)) /\ UNCHANGED historyVars
    \/ (\E t \in timeouts : backoffElapsed(t)) /\ UNCHANGED historyVars
    \/ (\E i \in intervals : countdownTick(i)) /\ UNCHANGED historyVars
    \/ onChatChanged /\ UNCHANGED historyVars
    \/ stopClicked /\ UNCHANGED historyVars
    \/ (\E v \in BOOLEAN : setEnabled(v)) /\ UNCHANGED historyVars

Spec == Init /\ [][Next]_vars

\* ------------------------------------------------- the scheduler's history

\* startRefreshTimer's limit test, for the chat the host currently shows.
BudgetSpent == refreshCount >= maxRefreshes /\ currentChatId = activeChat

\* After every handler: remember the chat whose budget has run out, for as long
\* as the host keeps showing that chat.
recordExhaustion ==
    /\ exhaustedFor' = IF BudgetSpent' THEN activeChat'
                       ELSE IF exhaustedFor = activeChat' THEN exhaustedFor
                       ELSE NotExhausted
    /\ UNCHANGED sendsSinceCapture

NextExhaustion ==
    \/ (\E c \in ChatIdOrNull : hostSwitchChat(c)) /\ recordExhaustion
    \/ (\E len \in 0..MaxChatLen : capturePromptData(len)) /\ recordExhaustion
    \/ (\E t \in timeouts : sendCacheRefresh(t)) /\ recordExhaustion
    \/ (\E c \in ChatIdOrNull : sendResolved(c)) /\ recordExhaustion
    \/ (\E c \in ChatIdOrNull : sendRejected(c)) /\ recordExhaustion
    \/ (\E t \in timeouts : backoffElapsed(t)) /\ recordExhaustion
    \/ (\E i \in intervals : countdownTick(i)) /\ recordExhaustion
    \/ onChatChanged /\ recordExhaustion
    \/ stopClicked /\ recordExhaustion
    \/ (\E v \in BOOLEAN : setEnabled(v)) /\ recordExhaustion

SpecExhaustion == Init /\ [][NextExhaustion]_vars

\* A handler that called generateQuietPrompt has one more request in flight.
recordSend ==
    /\ sendsSinceCapture' = sendsSinceCapture + (IF InFlight' > InFlight THEN 1 ELSE 0)
    /\ UNCHANGED exhaustedFor

\* The host whose generateQuietPrompt always rejects: every handler but the
\* success continuation.  Fire timers are left waiting once MaxSends refreshes
\* have been sent since the last capture.
NextFailing ==
    \/ (\E c \in ChatIdOrNull : hostSwitchChat(c)) /\ UNCHANGED historyVars
    \/ /\ \E len \in 0..MaxChatLen : capturePromptData(len)
       /\ sendsSinceCapture' = 0
       /\ UNCHANGED exhaustedFor
    \/ /\ sendsSinceCapture < MaxSends
       /\ \E t \in timeouts : sendCacheRefresh(t)
       /\ recordSend
    \/ (\E c \in ChatIdOrNull : sendRejected(c)) /\ UNCHANGED historyVars
    \/ (\E t \in timeouts : backoffElapsed(t)) /\ UNCHANGED historyVars
    \/ (\E i \in intervals : countdownTick(i)) /\ UNCHANGED historyVars
    \/ onChatChanged /\ UNCHANGED historyVars
    \/ stopClicked /\ UNCHANGED historyVars
    \/ (\E v \in BOOLEAN : setEnabled(v)) /\ UNCHANGED historyVars

SpecFailing == Init /\ [][NextFailing]_vars

\* The undisturbed host: the feature stays enabled, the chat stays the one it
\* was, every generateQuietPrompt resolves, and generations end (captures) are
\* the only events from outside.
captureEvent == (\E len \in 0..MaxChatLen : capturePromptData(len)) /\ UNCHANGED historyVars
fireTimerElapses == (\E t \in timeouts : sendCacheRefresh(t)) /\ UNCHANGED historyVars
requestResolves == (\E c \in ChatIdOrNull : sendResolved(c)) /\ UNCHANGED historyVars
countdownTicks == (\E i \in intervals : countdownTick(i)) /\ UNCHANGED historyVars

NextQuiet ==
    \/ captureEvent
    \/ fireTimerElapses
    \/ requestResolves
    \/ countdownTicks

\* The event loop runs every timeout that is due and settles every promise.
FairQuiet == WF_vars(fireTimerElapses) /\ WF_vars(requestResolves)

SpecQuiet == Init /\ [][NextQuiet]_vars /\ FairQuiet

\* The host's clock: the countdown interval (every second) and the fire timeout
\* (after settings.interval) are started together, so the fire timeout is due
\* when the countdown has ticked down to 0, and not before.
NextCountdown ==
    \/ (\E c \in ChatIdOrNull : hostSwitchChat(c)) /\ UNCHANGED historyVars
    \/ (\E len \in 0..MaxChatLen : capturePromptData(len)) /\ UNCHANGED historyVars
    \/ /\ secondsRemaining <= 0
       /\ \E t \in timeouts : sendCacheRefresh(t)
       /\ UNCHANGED historyVars
    \/ (\E c \in ChatIdOrNull : sendResolved(c)) /\ UNCHANGED historyVars
    \/ (\E c \in ChatIdOrNull : sendRejected(c)) /\ UNCHANGED historyVars
    \/ (\E t \in timeouts : backoffElapsed(t)) /\ UNCHANGED historyVars
    \/ /\ RefreshTimeouts(timeouts) # {} => secondsRemaining > 0
       /\ \E i \in intervals : countdownTick(i)
       /\ UNCHANGED historyVars
    \/ onChatChanged /\ UNCHANGED historyVars
    \/ stopClicked /\ UNCHANGED historyVars
    \/ (\E v \in BOOLEAN : setEnabled(v)) /\ UNCHANGED historyVars

SpecCountdown == Init /\ [][NextCountdown]_vars

\* ------------------------------------------- the host's generation events

\* The user sends a message: the host starts a generation.  registerEventListeners
\* subscribes to no generation-started event, so no handler of the extension runs.
hostGenerationStarted ==
    /\ ~generating
    /\ generating' = TRUE
    /\ UNCHANGED <<schedulerVars, outsideScheduler, historyVars>>

\* GENERATION_STOPPED: the registered handler is () => {}.
onGenerationStopped ==
    /\ generating
    /\ generating' = FALSE
    /\ UNCHANGED <<schedulerVars, outsideScheduler, historyVars>>

NextGen ==
    \/ Next
    \/ hostGenerationStarted
    \/ onGenerationStopped

SpecGen == Init /\ [][NextGen]_vars

\* ---------------------------------------------------------------- teardown

unregisterEventListeners ==
    eventListenersRegistered' = (IF eventListenersRegistered THEN FALSE
                                 ELSE eventListenersRegistered)

removeFetchInterceptor ==
    IF originalFetch # NoFetch
    THEN /\ windowFetch' = originalFetch
         /\ originalFetch' = NoFetch
    ELSE UNCHANGED <<windowFetch, originalFetch>>

\* cleanup(): listeners off, scheduler reset, fetch restored, settings panel removed.
cleanup ==
    /\ unregisterEventListeners
    /\ resetRefresherState
    /\ removeFetchInterceptor
    /\ settingsMounted' = FALSE
    /\ UNCHANGED <<settingsVars, activeChat, pending, limitNotices, stopRequested,
                   generating, outsideSetup, historyVars>>

\* The host tears an initialised extension down, once.
NextTeardown ==
    \/ Next
    \/ eventListenersRegistered /\ cleanup

SpecTeardown == Init /\ [][NextTeardown]_vars

\* ------------------------------------------------------------ cache monitor

Max(a, b) == IF a >= b THEN a ELSE b

\* usage[k] as JavaScript reads it in a || chain: truthy when present and not 0.
Truthy(usage, k) == k \in DOMAIN usage /\ usage[k] \notin {0, JsNull, JsUndefined}
OrElse(usage, k1, k2) ==
    IF Truthy(usage, k1) THEN usage[k1]
    ELSE IF Truthy(usage, k2) THEN usage[k2]
    ELSE 0

\* The normalisation at the head of processCacheUsage.
NormCacheRead(usage) == OrElse(usage, "cache_read_input_tokens", "cacheReadInputTokens")
NormCacheWrite(usage) == OrElse(usage, "cache_creation_input_tokens", "cacheCreationInputTokens")
NormInput(usage) == OrElse(usage, "input_tokens", "prompt_tokens")
NormOutput(usage) == OrElse(usage, "output_tokens", "completion_tokens")

\* Savings with no fallback pricing: an unknown key prices at nothing.
calculateSavingsNoFallback(cacheReadTokens, model) ==
    LET pricing == IF model \in DOMAIN PRICING_MODELS THEN PRICING_MODELS[model]
                   ELSE [input |-> 0, cacheWrite |-> 0, cacheRead |-> 0]
    IN Max(0, cacheReadTokens * pricing.input - cacheReadTokens * pricing.cacheRead)

\* calculateSavings(cacheReadTokens) under pricing key model.  Money is kept exact:
\* the result is in units of 10^-8 dollar (cents per million tokens times tokens),
\* so the division by 1_000_000 is the unit and not a rounding.
calculateSavings(cacheReadTokens, model) ==
    LET pricing == IF model \in DOMAIN PRICING_MODELS THEN PRICING_MODELS[model]
                   ELSE PRICING_MODELS[DefaultPricingModel]
        regularCost == cacheReadTokens * pricing.input
        cachedCost == cacheReadTokens * pricing.cacheRead
    IN Max(0, regularCost - cachedCost)

\* A slice that keeps the oldest n entries.
SliceFirst(h, n) == IF Len(h) > n THEN SubSeq(h, 1, n) ELSE h

\* sessionStats.history.slice(-n)
SliceLast(h, n) == IF Len(h) > n THEN SubSeq(h, Len(h) - n + 1, Len(h)) ELSE h

\* The miss counter has just reached the configured warning threshold.
missAlertDueAtOrBeyond(misses, threshold) == misses >= threshold

missAlertDue(misses, threshold) == misses = threshold

\* A record that does not look at settings.monitorEnabled.
processCacheUsageNoGate(usage) ==
    LET cacheRead == NormCacheRead(usage)
        cacheWrite == NormCacheWrite(usage)
        input == NormInput(usage)
        output == NormOutput(usage)
        now == Len(callLog) + 1
        isHit == cacheRead > 0
        savings == calculateSavings(cacheRead, pricingModel)
        misses == IF isHit THEN 0 ELSE sessionStats.consecutiveMisses + 1
        alert == ~isHit /\ missAlertDue(misses, consecutiveMissWarning)
        historyEntry == [timestamp |-> now, isHit |-> isHit,
                         cacheRead |-> cacheRead, cacheWrite |-> cacheWrite,
                         input |-> input, output |-> output, savings |-> savings]
    IN /\ callLog' = Append(callLog, [usage |-> usage, enabled |-> monitorEnabled,
                                      alert |-> alert])
       /\ IF FALSE
          THEN UNCHANGED <<sessionStats, lastCacheHitTime, lastToast>>
          ELSE /\ sessionStats' =
                     [requests |-> sessionStats.requests + 1,
                      hits |-> sessionStats.hits + (IF isHit THEN 1 ELSE 0),
                      misses |-> sessionStats.misses + (IF isHit THEN 0 ELSE 1),
                      cacheReadTokens |-> sessionStats.cacheReadTokens + cacheRead,
                      cacheWriteTokens |-> sessionStats.cacheWriteTokens + cacheWrite,
                      inputTokens |-> sessionStats.inputTokens + input,
                      outputTokens |-> sessionStats.outputTokens + output,
                      savings |-> sessionStats.savings + savings,
                      consecutiveMisses |-> misses,
                      history |-> SliceLast(Append(sessionStats.history, historyEntry),
                                            HISTORY_LIMIT)]
               /\ lastCacheHitTime' = IF isHit THEN now ELSE lastCacheHitTime
               /\ lastToast' = IF alert THEN "consecutive-misses" ELSE "none"
       /\ UNCHANGED <<monitorSettings, setupVars, outsideMonitor>>

\* A record that assigns the input-token count where the code adds it.
processCacheUsageAssignsInput(usage) ==
    LET cacheRead == NormCacheRead(usage)
        cacheWrite == NormCacheWrite(usage)
        input == NormInput(usage)
        output == NormOutput(usage)
        now == Len(callLog) + 1
        isHit == cacheRead > 0
        savings == calculateSavings(cacheRead, pricingModel)
        misses == IF isHit THEN 0 ELSE sessionStats.consecutiveMisses + 1
        alert == monitorEnabled /\ ~isHit /\ missAlertDue(misses, consecutiveMissWarning)
        historyEntry == [timestamp |-> now, isHit |-> isHit,
                         cacheRead |-> cacheRead, cacheWrite |-> cacheWrite,
                         input |-> input, output |-> output, savings |-> savings]
    IN /\ callLog' = Append(callLog, [usage |-> usage, enabled |-> monitorEnabled,
                                      alert |-> alert])
       /\ IF ~monitorEnabled
          THEN UNCHANGED <<sessionStats, lastCacheHitTime, lastToast>>
          ELSE /\ sessionStats' =
                     [requests |-> sessionStats.requests + 1,
                      hits |-> sessionStats.hits + (IF isHit THEN 1 ELSE 0),
                      misses |-> sessionStats.misses + (IF isHit THEN 0 ELSE 1),
                      cacheReadTokens |-> sessionStats.cacheReadTokens + cacheRead,
                      cacheWriteTokens |-> sessionStats.cacheWriteTokens + cacheWrite,
                      inputTokens |-> input,
                      outputTokens |-> sessionStats.outputTokens + output,
                      savings |-> sessionStats.savings + savings,
                      consecutiveMisses |-> misses,
                      history |-> SliceLast(Append(sessionStats.history, historyEntry),
                                            HISTORY_LIMIT)]
               /\ lastCacheHitTime' = IF isHit THEN now ELSE lastCacheHitTime
               /\ lastToast' = IF alert THEN "consecutive-misses" ELSE "none"
       /\ UNCHANGED <<monitorSettings, setupVars, outsideMonitor>>

\* processCacheUsage(usage) for an object usage.  Date.now() is read as the
\* ordinal of the call since the last reset.
processCacheUsage(usage) ==
    LET cacheRead == NormCacheRead(usage)
        cacheWrite == NormCacheWrite(usage)
        input == NormInput(usage)
        output == NormOutput(usage)
        now == Len(callLog) + 1
        isHit == cacheRead > 0
        savings == calculateSavings(cacheRead, pricingModel)
        misses == IF isHit THEN 0 ELSE sessionStats.consecutiveMisses + 1
        alert == monitorEnabled /\ ~isHit /\ missAlertDue(misses, consecutiveMissWarning)
        historyEntry == [timestamp |-> now, isHit |-> isHit,
                         cacheRead |-> cacheRead, cacheWrite |-> cacheWrite,
                         input |-> input, output |-> output, savings |-> savings]
    IN /\ callLog' = Append(callLog, [usage |-> usage, enabled |-> monitorEnabled,
                                      alert |-> alert])
       /\ IF ~monitorEnabled
          THEN UNCHANGED <<sessionStats, lastCacheHitTime, lastToast>>
          ELSE /\ sessionStats' =
                     [requests |-> sessionStats.requests + 1,
                      hits |-> sessionStats.hits + (IF isHit THEN 1 ELSE 0),
                      misses |-> sessionStats.misses + (IF isHit THEN 0 ELSE 1),
                      cacheReadTokens |-> sessionStats.cacheReadTokens + cacheRead,
                      cacheWriteTokens |-> sessionStats.cacheWriteTokens + cacheWrite,
                      inputTokens |-> sessionStats.inputTokens + input,
                      outputTokens |-> sessionStats.outputTokens + output,
                      savings |-> sessionStats.savings + savings,
                      consecutiveMisses |-> misses,
                      history |-> SliceLast(Append(sessionStats.history, historyEntry),
                                            HISTORY_LIMIT)]
               /\ lastCacheHitTime' = IF isHit THEN now ELSE lastCacheHitTime
               /\ lastToast' = IF alert THEN "consecutive-misses" ELSE "none"
       /\ UNCHANGED <<monitorSettings, setupVars, outsideMonitor>>

\* A reset that leaves the last-hit time as it is.
resetCacheStatsKeepsHitTime ==
    /\ sessionStats' = EmptyStats
    /\ lastCacheHitTime' = lastCacheHitTime
    /\ lastToast' = "statistics-reset"
    /\ callLog' = <<>>
    /\ UNCHANGED <<monitorSettings, setupVars, outsideMonitor, interceptVars>>

\* A reset that forgets to zero the cache-read sum.
resetCacheStatsKeepsTokens ==
    /\ sessionStats' = [EmptyStats EXCEPT !.cacheReadTokens = sessionStats.cacheReadTokens]
    /\ lastCacheHitTime' = NoTime
    /\ lastToast' = "statistics-reset"
    /\ callLog' = <<>>
    /\ UNCHANGED <<monitorSettings, setupVars, outsideMonitor, interceptVars>>

resetCacheStats ==
    /\ sessionStats' = EmptyStats
    /\ lastCacheHitTime' = NoTime
    /\ lastToast' = "statistics-reset"
    /\ callLog' = <<>>
    /\ UNCHANGED <<monitorSettings, setupVars, outsideMonitor, interceptVars>>

\* An install that wraps whatever fetch it finds, installed already or not.
setupFetchInterceptorNoGuard ==
    /\ originalFetch' = windowFetch
    /\ windowFetch' = InterceptorFetch

setupFetchInterceptor ==
    IF originalFetch # NoFetch
    THEN UNCHANGED <<windowFetch, originalFetch>>
    ELSE /\ originalFetch' = windowFetch
         /\ windowFetch' = InterceptorFetch

\* Change of the "cache monitor enabled" checkbox to v.
setMonitorEnabled(v) ==
    /\ settingsMounted
    /\ v # monitorEnabled
    /\ monitorEnabled' = v
    /\ IF v THEN setupFetchInterceptor ELSE UNCHANGED <<windowFetch, originalFetch>>
    /\ UNCHANGED <<consecutiveMissWarning, pricingModel, sessionStats, lastCacheHitTime,
                   lastToast, callLog, eventListenersRegistered, settingsMounted,
                   outsideMonitor, interceptVars>>

\* Change of the pricing select to key k.
setPricingModel(k) ==
    /\ settingsMounted
    /\ k # pricingModel
    /\ pricingModel' = k
    /\ UNCHANGED <<monitorEnabled, consecutiveMissWarning, sessionStats, lastCacheHitTime,
                   lastToast, callLog, setupVars, outsideMonitor, interceptVars>>

\* Usage objects as the providers send them: Anthropic names, OpenAI names,
\* camelCase names, explicit zeros.
UsageSamples ==
    { [input_tokens |-> 2, output_tokens |-> 1,
       cache_read_input_tokens |-> 0, cache_creation_input_tokens |-> 3],
      [input_tokens |-> 1, output_tokens |-> 1, cache_read_input_tokens |-> 2],
      [prompt_tokens |-> 3, completion_tokens |-> 1],
      [cacheReadInputTokens |-> 1, cacheCreationInputTokens |-> 0, input_tokens |-> 0,
       prompt_tokens |-> 2] }

NextMonitor ==
    \/ \E u \in UsageSamples :
           Len(callLog) < MaxCalls /\ processCacheUsage(u) /\ UNCHANGED interceptVars
    \/ resetCacheStats
    \/ \E v \in BOOLEAN : setMonitorEnabled(v)
    \/ \E k \in PricingChoices : setPricingModel(k)

\* The monitor reads nothing of the scheduler: its runs start from the initial
\* states with no chat open.
InitMonitor ==
    /\ InitIdle
    /\ maxRefreshes = 1
    /\ activeChat = NoChat
    /\ consecutiveMissWarning \in 1..MissWarningBound
    /\ parsed = NullObject

SpecMonitor == InitMonitor /\ [][NextMonitor]_vars

\* The k-th usage to arrive, recognisable by its token counts.
ArrivalUsage(k) ==
    [cache_read_input_tokens |-> k % 2, input_tokens |-> k, output_tokens |-> 1]

NextHistory ==
    \/ /\ Len(callLog) < MaxArrivals
       /\ processCacheUsage(ArrivalUsage(Len(callLog) + 1))
       /\ UNCHANGED interceptVars
    \/ resetCacheStats

SpecHistory == InitMonitor /\ [][NextHistory]_vars

\* The scheduler and the monitor side by side in one session: the handlers of
\* both run on the same event loop, in any order.  The responses seen are a
\* cache hit and a cache miss.
SessionUsages == {u \in UsageSamples : DOMAIN u \cap {"cache_creation_input_tokens",
                                                     "cacheReadInputTokens"} = {}}

NextSession ==
    \/ Next
    \/ \E u \in SessionUsages :
           Len(callLog) < MaxSessionCalls /\ processCacheUsage(u) /\ UNCHANGED interceptVars
    \/ resetCacheStats

InitSession ==
    /\ Init
    /\ maxRefreshes = 1

SpecSession == InitSession /\ [][NextSession]_vars

\* init(), with the awaits of initSettingsUI() not interleaved with other handlers:
\* settings panel mounted, listeners registered, interceptor installed.
init ==
    /\ settingsMounted' = TRUE
    /\ eventListenersRegistered' = (IF eventListenersRegistered THEN eventListenersRegistered
                                    ELSE TRUE)
    /\ setupFetchInterceptor
    /\ UNCHANGED <<schedulerVars, generating, outsideSetup, historyVars>>

\* The monitor together with the host initialising and tearing down the extension.
NextLifecycle ==
    \/ NextMonitor
    \/ init
    \/ cleanup

SpecLifecycle == InitMonitor /\ [][NextLifecycle]_vars

\* ------------------------------------------------------- usage extraction

\* obj[k] names an object (neither missing nor null).
HasObject(obj, k) == k \in DOMAIN obj /\ obj[k] # NullObject

\* obj[k] of a numeric field, undefined when the key is missing.
Field(obj, k) == IF k \in DOMAIN obj THEN obj[k] ELSE JsUndefined

\* obj[k]?.usage is truthy.
HasNestedUsage(obj, k) == HasObject(obj, k) /\ HasObject(obj[k], "usage")

\* An extractor that knows only the direct usage field.
extractUsageDirectOnly(obj) ==
    IF HasObject(obj, "usage") THEN obj.usage ELSE NullObject

\* An extractor that looks under the response and data wrappers first.
extractUsageWrappedFirst(obj) ==
    IF HasNestedUsage(obj, "response") THEN obj.response.usage
    ELSE IF HasNestedUsage(obj, "data") THEN obj.data.usage
    ELSE IF HasObject(obj, "usage") THEN obj.usage
    ELSE IF HasNestedUsage(obj, "message") THEN obj.message.usage
    ELSE IF HasObject(obj, "x_oaicompat_usage") THEN obj.x_oaicompat_usage
    ELSE IF \/ Field(obj, "cache_read_input_tokens") # JsUndefined
            \/ Field(obj, "cache_creation_input_tokens") # JsUndefined
         THEN [cache_read_input_tokens |-> Field(obj, "cache_read_input_tokens"),
               cache_creation_input_tokens |-> Field(obj, "cache_creation_input_tokens"),
               input_tokens |-> Field(obj, "input_tokens"),
               output_tokens |-> Field(obj, "output_tokens")]
    ELSE NullObject

\* extractUsageFromObject(obj) for an object obj.
extractUsageFromObject(obj) ==
    IF HasObject(obj, "usage") THEN obj.usage
    ELSE IF HasNestedUsage(obj, "message") THEN obj.message.usage
    ELSE IF /\ "type" \in DOMAIN obj /\ obj.type = "message_start"
            /\ HasNestedUsage(obj, "message") THEN obj.message.usage
    ELSE IF /\ "type" \in DOMAIN obj /\ obj.type = "message_delta"
            /\ HasObject(obj, "usage") THEN obj.usage
    ELSE IF HasObject(obj, "x_oaicompat_usage") THEN obj.x_oaicompat_usage
    ELSE IF \/ Field(obj, "cache_read_input_tokens") # JsUndefined
            \/ Field(obj, "cache_creation_input_tokens") # JsUndefined
         THEN [cache_read_input_tokens |-> Field(obj, "cache_read_input_tokens"),
               cache_creation_input_tokens |-> Field(obj, "cache_creation_input_tokens"),
               input_tokens |-> Field(obj, "input_tokens"),
               output_tokens |-> Field(obj, "output_tokens")]
    ELSE IF HasNestedUsage(obj, "response") THEN obj.response.usage
    ELSE IF HasNestedUsage(obj, "data") THEN obj.data.usage
    ELSE NullObject

\* Parsed response objects: every combination of the places usage can sit in.
NoPart == <<>>
ExampleUsage == [cache_read_input_tokens |-> 200, input_tokens |-> 50]
JsonObjects ==
    { t @@ u @@ m @@ x @@ r @@ w @@ d @@ f :
        t \in {NoPart, [type |-> "message_start"], [type |-> "message_delta"],
               [type |-> "message_stop"]},
        u \in {NoPart, [usage |-> NullObject],
               [usage |-> [input_tokens |-> 11, output_tokens |-> 1]]},
        m \in {NoPart, [message |-> [id |-> "msg_1"]], [message |-> [usage |-> ExampleUsage]]},
        x \in {NoPart, [x_oaicompat_usage |-> [prompt_tokens |-> 13, completion_tokens |-> 3]]},
        r \in {NoPart, [cache_read_input_tokens |-> 9],
               [cache_creation_input_tokens |-> 0, input_tokens |-> 4]},
        w \in {NoPart, [response |-> [usage |-> [input_tokens |-> 15]]]},
        d \in {NoPart, [data |-> [usage |-> [input_tokens |-> 16]]]},
        f \in {NoPart, [foo |-> "bar"]} }

extractStep ==
    /\ extracted = Pending
    /\ extracted' = extractUsageFromObject(parsed)
    /\ UNCHANGED <<parsed, streamVars, monitorVars, setupVars, outsideMonitor>>

InitExtract ==
    /\ InitIdle
    /\ maxRefreshes = 1
    /\ activeChat = NoChat
    /\ consecutiveMissWarning = DEFAULT_MISS_WARNING
    /\ parsed \in JsonObjects

NextExtract == extractStep /\ UNCHANGED apiRequests

SpecExtract == InitExtract /\ [][NextExtract]_vars

\* ------------------------------------------------------ streamed responses

\* The text of a stream is a sequence of pieces: a newline, or a stretch of
\* characters with no newline in it.  PieceInfo says what a piece holds: whether
\* it begins with "data: ", and which part of which frame's JSON text follows.
NL == "\n"
PieceInfo ==
    [p \in {"data: {start}", "data: {delta}", "{raw", "...raw}", "data: {content}",
            "data: [DONE]", "event: message_start"} |->
        CASE p = "data: {start}" -> [prefix |-> TRUE, frame |-> "start", part |-> "whole"]
          [] p = "data: {delta}" -> [prefix |-> TRUE, frame |-> "delta", part |-> "whole"]
          [] p = "{raw" -> [prefix |-> FALSE, frame |-> "raw", part |-> "head"]
          [] p = "...raw}" -> [prefix |-> FALSE, frame |-> "raw", part |-> "tail"]
          [] p = "data: {content}" -> [prefix |-> TRUE, frame |-> "content", part |-> "whole"]
          [] p = "data: [DONE]" -> [prefix |-> TRUE, frame |-> "none", part |-> "[DONE]"]
          [] OTHER -> [prefix |-> FALSE, frame |-> "none", part |-> "event:"]]

Pieces == DOMAIN PieceInfo \cup {NL}

\* The objects the frames' JSON texts parse to.
FrameObject ==
    [f \in {"start", "delta", "raw", "content"} |->
        CASE f = "start" ->
                 [type |-> "message_start",
                  message |-> [usage |-> [cache_read_input_tokens |-> 0, input_tokens |-> 100]]]
          [] f = "delta" ->
                 [type |-> "message_delta",
                  usage |-> [cache_read_input_tokens |-> 500, input_tokens |-> 100,
                             output_tokens |-> 0]]
          [] f = "raw" ->
                 [usage |-> [cache_read_input_tokens |-> JsNull, input_tokens |-> 7,
                             output_tokens |-> 0]]
          [] OTHER -> [type |-> "content_block_delta", usage |-> NullObject]]

\* text.split('\n')
RECURSIVE Split(_)
Split(text) ==
    IF text = <<>> THEN << <<>> >>
    ELSE LET rest == Split(Tail(text))
         IN IF Head(text) = NL THEN << <<>> >> \o rest
            ELSE << <<Head(text)>> \o Head(rest) >> \o Tail(rest)

\* What JSON.parse makes of the pieces of one line after the "data: " prefix
\* of the first has been cut: a frame when they are exactly one frame's text.
ParseJson(parts) ==
    IF Len(parts) = 1 /\ parts[1].part = "whole" THEN parts[1].frame
    ELSE IF /\ Len(parts) = 2
            /\ parts[1].part = "head" /\ parts[2].part = "tail"
            /\ parts[1].frame = parts[2].frame
         THEN parts[1].frame
    ELSE "none"

\* The body of the loop over the lines, up to the parse: the frame the line
\* parses to, "none" when the line is skipped or JSON.parse throws.
lineFrame(line) ==
    LET info == [i \in 1..Len(line) |-> PieceInfo[line[i]]]
        first == info[1]
        isData == first.prefix
        isEvent == ~isData /\ first.part = "event:"
        \* a prefix that is not at the start of the line stays in the data
        clean == \A i \in 2..Len(line) : ~info[i].prefix
    IN IF line = <<>> THEN "none"
       ELSE IF isEvent THEN "none"
       ELSE IF Len(line) = 1 /\ first.part = "[DONE]" THEN "none"
       ELSE IF ~clean THEN "none"
       ELSE ParseJson(info)

\* A merge in which the last value always wins.
mergeUsageLastWins(acc, usage) ==
    [k \in DOMAIN acc \cup DOMAIN usage |-> IF k \in DOMAIN usage THEN usage[k] ELSE acc[k]]

\* The merge loop: usage's entries written over acc's.
mergeUsage(acc, usage) ==
    LET written == {k \in DOMAIN usage :
                        /\ usage[k] # JsUndefined
                        /\ usage[k] # JsNull
                        /\ (usage[k] # 0 \/ k \notin DOMAIN acc \/ acc[k] = 0)}
    IN [k \in DOMAIN acc \cup written |-> IF k \in written THEN usage[k] ELSE acc[k]]

\* A loop over the lines in which a line that yields no frame drops what has
\* been accumulated.
RECURSIVE processLinesBadLineResets(_, _)
processLinesBadLineResets(lines, acc) ==
    IF lines = <<>> THEN acc
    ELSE LET frame == lineFrame(Head(lines))
             usage == IF frame = "none" THEN NullObject
                      ELSE extractUsageFromObject(FrameObject[frame])
             next == IF frame = "none" THEN NullObject
                     ELSE IF usage = NullObject THEN acc
                     ELSE mergeUsage(IF acc = NullObject THEN <<>> ELSE acc, usage)
         IN processLinesBadLineResets(Tail(lines), next)

\* The loop over the lines of one read, from accumulator acc.
RECURSIVE processLines(_, _)
processLines(lines, acc) ==
    IF lines = <<>> THEN acc
    ELSE LET frame == lineFrame(Head(lines))
             usage == IF frame = "none" THEN NullObject
                      ELSE extractUsageFromObject(FrameObject[frame])
             next == IF usage = NullObject THEN acc
                     ELSE mergeUsage(IF acc = NullObject THEN <<>> ELSE acc, usage)
         IN processLines(Tail(lines), next)

RECURSIVE Front(_)
Front(q) == IF Len(q) <= 1 THEN <<>> ELSE <<Head(q)>> \o Front(Tail(q))

\* What one read can deliver when room more pieces are left of the stream.
Chunks(room) ==
    UNION {[1..n -> Pieces] : n \in 1..(IF room < ChunkLen THEN room ELSE ChunkLen)}

\* The interceptor hands a streamed response to handleStreamingResponse.
interceptStreaming ==
    /\ windowFetch = InterceptorFetch
    /\ ~streamOpen
    /\ streams < MaxStreams
    /\ streams' = streams + 1
    /\ streamOpen' = TRUE
    /\ buffer' = <<>>
    /\ usageData' = NullObject
    /\ streamText' = <<>>
    /\ UNCHANGED <<extractVars, monitorVars, setupVars, outsideMonitor>>

\* reader.read() delivers chunk: one turn of the read loop.
readChunk(chunk) ==
    /\ streamOpen
    /\ Len(streamText) + Len(chunk) <= MaxStreamLen
    /\ LET lines == Split(buffer \o chunk)
       IN /\ buffer' = lines[Len(lines)]
          /\ usageData' = processLines(Front(lines), usageData)
    /\ streamText' = streamText \o chunk
    /\ UNCHANGED <<streamOpen, streams, extractVars, monitorVars, setupVars, outsideMonitor>>

\* An end of stream that reports whatever the accumulator is.
streamEndAlways ==
    /\ streamOpen
    /\ streamOpen' = FALSE
    /\ processCacheUsage(IF usageData = NullObject THEN <<>> ELSE usageData)
    /\ UNCHANGED <<buffer, usageData, streamText, streams, extractVars>>

\* An end of stream that treats what is left in the buffer as a last line.
streamEndParsesRemainder ==
    /\ streamOpen
    /\ streamOpen' = FALSE
    /\ LET last == processLines(<<buffer>>, usageData)
       IN IF last # NullObject /\ DOMAIN last # {}
          THEN processCacheUsage(last)
          ELSE UNCHANGED <<monitorVars, setupVars, outsideMonitor>>
    /\ UNCHANGED <<buffer, usageData, streamText, streams, extractVars>>

\* reader.read() signals done.
streamEnd ==
    /\ streamOpen
    /\ streamOpen' = FALSE
    /\ IF usageData # NullObject /\ DOMAIN usageData # {}
       THEN processCacheUsage(usageData)
       ELSE UNCHANGED <<monitorVars, setupVars, outsideMonitor>>
    /\ UNCHANGED <<buffer, usageData, streamText, streams, extractVars>>

\* reader.read() rejects: the catch ends the handler.
streamFailed ==
    /\ streamOpen
    /\ streamOpen' = FALSE
    /\ UNCHANGED <<buffer, usageData, streamText, streams, extractVars, monitorVars,
                   setupVars, outsideMonitor>>

NextStream ==
    \/ interceptStreaming /\ UNCHANGED apiRequests
    \/ /\ \E chunk \in Chunks(MaxStreamLen - Len(streamText)) : readChunk(chunk)
       /\ UNCHANGED apiRequests
    \/ streamEnd /\ UNCHANGED apiRequests
    \/ streamFailed /\ UNCHANGED apiRequests

InitStream ==
    /\ InitIdle
    /\ maxRefreshes = 1
    /\ activeChat = NoChat
    /\ consecutiveMissWarning = DEFAULT_MISS_WARNING
    /\ parsed = NullObject

SpecStream == InitStream /\ [][NextStream]_vars

\* ------------------------------------------------------------ API requests

HostUsage == [cache_read_input_tokens |-> 200, input_tokens |-> 50, output_tokens |-> 1]
PlainUsage == [input_tokens |-> 4, output_tokens |-> 1]

\* Key names are spelled out so that toLowerCase() and includes() can be
\* computed on them.  The keys of the sample objects that are not listed here
\* contain none of 'usage', 'token' and 'cache'.
KeySpelling ==
    [usage |-> <<"u", "s", "a", "g", "e">>,
     Usage |-> <<"U", "s", "a", "g", "e">>,
     usageMetadata |-> <<"u", "s", "a", "g", "e", "M", "e", "t", "a", "d", "a", "t", "a">>,
     token_usage |-> <<"t", "o", "k", "e", "n", "_", "u", "s", "a", "g", "e">>,
     TokenInfo |-> <<"T", "o", "k", "e", "n", "I", "n", "f", "o">>,
     cacheStats |-> <<"c", "a", "c", "h", "e", "S", "t", "a", "t", "s">>,
     CACHE |-> <<"C", "A", "C", "H", "E">>,
     meta |-> <<"m", "e", "t", "a">>]

\* Keys that hold a string or a number in the sample objects (typeof val is
\* not 'object'); every other key holds an object or null.
ScalarKeys ==
    {"input_tokens", "output_tokens", "cache_read_input_tokens",
     "cache_creation_input_tokens", "prompt_tokens", "completion_tokens",
     "result", "model", "id", "type", "isNull"}

UpperCase == <<"A", "B", "C", "D", "E", "F", "G", "H", "I", "J", "K", "L", "M",
               "N", "O", "P", "Q", "R", "S", "T", "U", "V", "W", "X", "Y", "Z">>
LowerCase == <<"a", "b", "c", "d", "e", "f", "g", "h", "i", "j", "k", "l", "m",
               "n", "o", "p", "q", "r", "s", "t", "u", "v", "w", "x", "y", "z">>

\* text.toLowerCase()
ToLowerCase(text) ==
    [i \in 1..Len(text) |->
        IF \E j \in 1..Len(UpperCase) : UpperCase[j] = text[i]
        THEN LowerCase[CHOOSE j \in 1..Len(UpperCase) : UpperCase[j] = text[i]]
        ELSE text[i]]

\* text.includes(part)
Includes(text, part) ==
    \E i \in 1..(Len(text) - Len(part) + 1) : SubSeq(text, i, i + Len(part) - 1) = part

\* The test deepFindUsage makes on a key before it descends.
KeySearched(key) ==
    \/ key = "usage"
    \/ Includes(ToLowerCase(KeySpelling[key]), <<"t", "o", "k", "e", "n">>)
    \/ Includes(ToLowerCase(KeySpelling[key]), <<"c", "a", "c", "h", "e">>)

\* deepFindUsage(obj, depth), with the keys that pass the key test as a
\* parameter.  The sample objects have at most one searched child, so the order
\* of Object.keys plays no part.
RECURSIVE deepFind(_, _, _)
deepFind(obj, depth, searched) ==
    IF depth > 5 \/ obj = NullObject THEN NullObject
    ELSE IF \/ Field(obj, "cache_read_input_tokens") # JsUndefined
            \/ Field(obj, "cache_creation_input_tokens") # JsUndefined
            \/ /\ Field(obj, "input_tokens") # JsUndefined
               /\ Field(obj, "output_tokens") # JsUndefined
         THEN obj
    ELSE IF HasObject(obj, "usage") THEN obj.usage
    ELSE LET found == {k \in DOMAIN obj \ ScalarKeys :
                          /\ k \in searched
                          /\ obj[k] # NullObject
                          /\ deepFind(obj[k], depth + 1, searched) # NullObject}
         IN IF found = {} THEN NullObject
            ELSE deepFind(obj[CHOOSE k \in found : TRUE], depth + 1, searched)

deepFindUsage(obj, depth) ==
    deepFind(obj, depth, {k \in DOMAIN KeySpelling : KeySearched(k)})

\* Bodies of application/json responses from the endpoints the interceptor matches.
JsonResponses ==
    { [usage |-> HostUsage],
      PlainUsage,
      [token_usage |-> PlainUsage],
      [result |-> "ok"] }

\* The interceptor hands a JSON response to handleNonStreamingResponse; data is
\* what JSON.parse makes of its text.
handleNonStreamingResponse(data) ==
    /\ windowFetch = InterceptorFetch
    /\ LET first == extractUsageFromObject(data)
           usage == IF first # NullObject THEN first ELSE deepFindUsage(data, 0)
       IN /\ parsed' = data
          /\ extracted' = first
          /\ IF usage # NullObject
             THEN processCacheUsage(usage)
             ELSE UNCHANGED <<monitorVars, setupVars, outsideMonitor>>
    /\ UNCHANGED streamVars

\* What the host hands to the GENERATION_ENDED listeners, and its context.
NoEventData == <<>>
EventData ==
    { NoEventData,
      [usage |-> HostUsage],
      [extra |-> [usage |-> HostUsage]],
      [meta |-> [usage |-> HostUsage]],
      [cache_read_input_tokens |-> 200, input_tokens |-> 50] }

PlainMessage == [mes |-> "hello"]
HostContexts ==
    { [chat |-> chat] @@ rest :
        chat \in { <<>>, <<PlainMessage>>,
                   <<PlainMessage, [extra |-> [api |-> [usage |-> HostUsage]]]>>,
                   <<[extra |-> [api |-> [cache_read_input_tokens |-> 200]]]>> },
        rest \in { <<>>,
                   [lastApiResponse |-> [usage |-> HostUsage]],
                   [apiResponse |-> [usage |-> HostUsage]],
                   [chat_metadata |-> [lastUsage |-> HostUsage]] } }

\* data.usage || data.extra?.usage || data.meta?.usage
EventUsage(data) ==
    IF HasObject(data, "usage") THEN data.usage
    ELSE IF HasNestedUsage(data, "extra") THEN data.extra.usage
    ELSE IF HasNestedUsage(data, "meta") THEN data.meta.usage
    ELSE NullObject

tryGetUsageFromContext(ctx) ==
    LET lastResponse == IF HasObject(ctx, "lastApiResponse") THEN ctx.lastApiResponse
                        ELSE IF HasObject(ctx, "apiResponse") THEN ctx.apiResponse
                        ELSE NullObject
        lastMsg == IF Len(ctx.chat) > 0 THEN ctx.chat[Len(ctx.chat)] ELSE NullObject
        apiData == IF HasObject(lastMsg, "extra") /\ HasObject(lastMsg.extra, "api")
                   THEN lastMsg.extra.api ELSE NullObject
    IN IF HasObject(lastResponse, "usage") THEN processCacheUsage(lastResponse.usage)
       ELSE IF HasObject(ctx, "chat_metadata") /\ HasObject(ctx.chat_metadata, "lastUsage")
       THEN processCacheUsage(ctx.chat_metadata.lastUsage)
       ELSE IF /\ apiData # NullObject
               /\ \/ Field(apiData, "cache_read_input_tokens") # JsUndefined
                  \/ HasObject(apiData, "usage")
       THEN processCacheUsage(IF HasObject(apiData, "usage") THEN apiData.usage ELSE apiData)
       ELSE UNCHANGED <<monitorVars, setupVars, outsideMonitor>>

\* onGenerationEnded(data) in the states where its capturePromptData() call
\* returns at once (feature disabled, or no message in the chat) and so leaves
\* the refresher as it is.
onGenerationEnded(data, ctx) ==
    /\ eventListenersRegistered
    /\ ~enabled \/ Len(ctx.chat) = 0
    /\ ~generating /\ ~stopRequested
    /\ IF EventUsage(data) # NullObject THEN processCacheUsage(EventUsage(data))
       ELSE IF \/ Field(data, "cache_read_input_tokens") # JsUndefined
               \/ Field(data, "cache_creation_input_tokens") # JsUndefined
       THEN processCacheUsage(data)
       ELSE tryGetUsageFromContext(ctx)
    /\ UNCHANGED <<streamVars, extractVars>>

\* What a read delivers of the streamed responses of these runs.
ResponseChunks == { <<"data: {delta}", NL>>, <<"data: {content}", NL>> }

\* Streamed responses arriving while the user switches the monitor off and on.
NextMuted ==
    \/ NextStream
    \/ \E v \in BOOLEAN : setMonitorEnabled(v)

SpecMuted == InitStream /\ [][NextMuted]_vars

\* The host makes one API request per generation: the response comes through
\* window.fetch, then the host emits GENERATION_ENDED for that generation.
NextRequest ==
    \/ (\E v \in BOOLEAN : setEnabled(v)) /\ UNCHANGED historyVars
    \/ /\ apiRequests.made = apiRequests.ended
       /\ apiRequests.made < MaxRequests
       /\ \E data \in JsonResponses : handleNonStreamingResponse(data)
       /\ apiRequests' = [apiRequests EXCEPT !.made = @ + 1]
    \/ /\ apiRequests.made = apiRequests.ended
       /\ apiRequests.made < MaxRequests
       /\ interceptStreaming
       /\ apiRequests' = [apiRequests EXCEPT !.made = @ + 1]
    \/ (\E chunk \in ResponseChunks : readChunk(chunk)) /\ UNCHANGED apiRequests
    \/ streamEnd /\ UNCHANGED apiRequests
    \/ streamFailed /\ UNCHANGED apiRequests
    \/ /\ apiRequests.ended < apiRequests.made
       /\ ~streamOpen
       /\ \E data \in EventData, ctx \in HostContexts : onGenerationEnded(data, ctx)
       /\ apiRequests' = [apiRequests EXCEPT !.ended = @ + 1]

SpecRequest == InitStream /\ [][NextRequest]_vars

\* -------------------------------------------------------------- deep search

\* leaf wrapped under the keys of path, outermost first.
RECURSIVE Nest(_, _)
Nest(path, leaf) ==
    IF path = <<>> THEN leaf ELSE (Head(path) :> Nest(Tail(path), leaf))

DeepLeaves == { PlainUsage, [cache_read_input_tokens |-> 200], [model |-> "claude"] }

\* Response bodies that match none of the extractor's shapes at their root:
\* a leaf under one or two keys, or under token_usage repeated up to
\* MaxNesting times.
DeepPaths ==
    {<<k>> : k \in DOMAIN KeySpelling \ {"usage"}}
    \cup {<<k1, k2>> : k1 \in {"token_usage", "meta", "usageMetadata"},
                       k2 \in DOMAIN KeySpelling}
    \cup {[i \in 1..n |-> "token_usage"] : n \in 3..MaxNesting}

DeepObjects == { Nest(path, leaf) @@ [id |-> "resp_1"] : path \in DeepPaths, leaf \in DeepLeaves }

InitDeep ==
    /\ InitIdle
    /\ maxRefreshes = 1
    /\ activeChat = NoChat
    /\ consecutiveMissWarning = DEFAULT_MISS_WARNING
    /\ parsed \in DeepObjects

\* The response whose body is parsed arrives as application/json.
NextDeep ==
    /\ extracted = Pending
    /\ handleNonStreamingResponse(parsed)
    /\ UNCHANGED apiRequests

SpecDeep == InitDeep /\ [][NextDeep]_vars

\* ------------------------------------------------------------ properties

NoFireTimer(ts) == RefreshTimeouts(ts) = {}
Quiescent == timeouts = {} /\ intervals = {} /\ InFlight = 0

TimerFires == \E t \in timeouts : sendCacheRefresh(t)
ResultArrives(c) == sendResolved(c) \/ sendRejected(c)
SchedulerCallback ==
    \/ TimerFires
    \/ \E c \in ChatIdOrNull : ResultArrives(c)
    \/ \E t \in timeouts : backoffElapsed(t)
    \/ \E i \in intervals : countdownTick(i)

\* C1: in every reachable state refreshCount is at most maxRefreshes.
CapInvariant == refreshCount <= maxRefreshes

\* C2: a refresh-send is invoked only while the active conversation is the one
\* of the captured context; a timer fire that finds the identity drifted sends
\* nothing and leaves no fire timer and no countdown.
SendOnlyForActiveChat ==
    [][ /\ InFlight' > InFlight =>
              /\ lastPromptData # NoData
              /\ activeChat = lastPromptData.chatId
              /\ pending' = [pending EXCEPT ![activeChat] = @ + 1]
        /\ (TimerFires /\ lastPromptData # NoData /\ activeChat # lastPromptData.chatId) =>
              /\ InFlight' = InFlight
              /\ NoFireTimer(timeouts')
              /\ intervals' = {}
              /\ refreshTimer' = NoTimer
              /\ countdownInterval' = NoTimer ]_vars

\* C2 witness: a refresh-send is in flight for the active conversation.
SendInFlightForActiveChat ==
    /\ lastPromptData # NoData
    /\ lastPromptData.chatId = activeChat
    /\ pending[activeChat] > 0

\* C3: handling conversation-changed while the active identity differs from the
\* current one cancels the fire timer and the countdown, zeroes refreshCount,
\* clears the captured context and invokes no refresh-send; no fire timer is
\* left that could fire for the stale arming.
ChatChangeResets ==
    [][ (onChatChanged /\ activeChat # currentChatId) =>
              /\ NoFireTimer(timeouts')
              /\ intervals' = {}
              /\ refreshTimer' = NoTimer
              /\ countdownInterval' = NoTimer
              /\ refreshCount' = 0
              /\ lastPromptData' = NoData
              /\ InFlight' = InFlight ]_vars

\* C3 witness: the scheduler was armed for A and fired, the host moved to B and
\* the change was handled: the context is cleared while A's request is in flight.
ResetAfterArmedForA ==
    /\ activeChat = "B"
    /\ pending["A"] > 0
    /\ lastPromptData = NoData
    /\ currentChatId = NoChat
    /\ refreshCount = 0
    /\ NoFireTimer(timeouts)
    /\ intervals = {}

\* C4: once refreshCount has reached maxRefreshes no fire timer and no countdown
\* is live, and no further refresh-send is invoked: a further timer never fires.
ExhaustedInert ==
    /\ [](refreshCount >= maxRefreshes => NoFireTimer(timeouts) /\ intervals = {})
    /\ [][refreshCount >= maxRefreshes => InFlight' <= InFlight]_vars

\* C4 witness: the cap was reached by successful fires in the unchanged,
\* enabled conversation and nothing is in flight.
ExhaustedAfterMaxFires ==
    /\ enabled
    /\ maxRefreshes = MaxRefreshesBound
    /\ refreshCount = maxRefreshes
    /\ lastPromptData # NoData
    /\ lastPromptData.chatId = activeChat
    /\ InFlight = 0
    /\ ~stopRequested

\* C5: a refresh-send result that arrives when the active conversation is no
\* longer the one it was sent for changes neither refreshCount nor the timers.
StaleResultDiscarded ==
    [][ \A c \in ChatIdOrNull : (ResultArrives(c) /\ c # activeChat) =>
              /\ refreshCount' = refreshCount
              /\ RefreshTimeouts(timeouts') = RefreshTimeouts(timeouts)
              /\ intervals' = intervals
              /\ secondsRemaining' = secondsRemaining ]_vars

\* C6: while the refresher is disabled no timer is live and no scheduler
\* callback takes effect: no refresh-send, no change of refreshCount, no arming.
DisabledIsInert ==
    /\ [](~enabled => NoFireTimer(timeouts) /\ intervals = {})
    /\ [][ (~enabled /\ SchedulerCallback) =>
              /\ InFlight' <= InFlight
              /\ refreshCount' = refreshCount
              /\ NoFireTimer(timeouts')
              /\ intervals' = {} ]_vars

\* C7: from a stop request until the next capture no fire timer and no
\* countdown is live and no refresh-send is invoked.
StoppedUntilCapture ==
    /\ [](stopRequested => NoFireTimer(timeouts) /\ intervals = {})
    /\ [][(stopRequested /\ stopRequested') => InFlight' <= InFlight]_vars

\* C8: a failed refresh-send leaves refreshCount unchanged and schedules exactly
\* one 5000 ms backoff timeout and no fire timer; the backoff fires once and
\* arms the fire timer only if the refresher is enabled at that moment.
FailureBacksOff ==
    [][ /\ \A c \in ChatIdOrNull : sendRejected(c) =>
              /\ refreshCount' = refreshCount
              /\ \E b \in timeouts' \ timeouts :
                    /\ b.kind = "backoff"
                    /\ b.delay = 5000
                    /\ timeouts' = timeouts \cup {b}
              /\ intervals' = intervals
        /\ \A t \in timeouts : backoffElapsed(t) =>
              /\ t \notin timeouts'
              /\ BackoffTimeouts(timeouts') = BackoffTimeouts(timeouts) \ {t}
              /\ refreshCount' = refreshCount
              /\ (~enabled => NoFireTimer(timeouts') /\ intervals' = {})
              /\ Cardinality(RefreshTimeouts(timeouts')) <= 1 ]_vars

\* C8 witness: a failure has happened under budget and its backoff is pending.
BackoffPending ==
    /\ BackoffTimeouts(timeouts) # {}
    /\ enabled
    /\ lastPromptData # NoData
    /\ refreshCount < maxRefreshes

\* C9: when the scheduler has come to rest with refreshCount at maxRefreshes,
\* the 'limit reached' notification has been emitted for it (not zero times).
LimitNoticeEmitted ==
    (Quiescent /\ refreshCount = maxRefreshes) => limitNotices >= 1

\* C10: the refresh budget is per message: every effective capture leaves the
\* scheduler with the full budget, i.e. refreshCount is 0 after it.
LimitPerMessage ==
    [][ \A len \in 1..MaxChatLen : (capturePromptData(len) /\ enabled) =>
              refreshCount' = 0 ]_vars

\* C11: while a generation is running (from its start to its generation-ended
\* event) the refresh timer is stopped and no refresh-send is invoked.
NoRefreshWhileGenerating ==
    /\ [](generating => NoFireTimer(timeouts) /\ intervals = {})
    /\ [][generating => InFlight' <= InFlight]_vars

\* C12: at most one fire timer and at most one countdown interval are live, and
\* they are the ones whose handles the scheduler holds (so the next arming
\* cancels them).
OneTimerEach ==
    /\ Cardinality(RefreshTimeouts(timeouts)) <= 1
    /\ Cardinality(intervals) <= 1
    /\ \A t \in RefreshTimeouts(timeouts) : t.id = refreshTimer
    /\ \A i \in intervals : i = countdownInterval

\* C12 witness: the timer is armed again after a success while a backoff from
\* an earlier failure is still pending.
ArmedAgainAfterSuccess ==
    /\ refreshCount >= 1
    /\ RefreshTimeouts(timeouts) # {}
    /\ intervals # {}
    /\ BackoffTimeouts(timeouts) # {}

\* C13: after cleanup no fire timer, countdown or backoff timer is live or
\* becomes live, no refresh-send is invoked, and window.fetch is the function
\* that was in place before setup.
TeardownReleasesAll ==
    /\ [](~eventListenersRegistered =>
              timeouts = {} /\ intervals = {} /\ windowFetch = NativeFetch)
    /\ [][~eventListenersRegistered => InFlight' <= InFlight]_vars

\* ---- cache monitor properties

RECURSIVE SumCacheRead(_, _)
\* Sum of the normalised cache-read tokens of the calls in log; withDisabled
\* says whether calls made while the monitor was off are counted.
SumCacheRead(log, withDisabled) ==
    IF log = <<>> THEN 0
    ELSE (IF withDisabled \/ Head(log).enabled THEN NormCacheRead(Head(log).usage) ELSE 0)
         + SumCacheRead(Tail(log), withDisabled)

Recorded == SelectSeq(callLog, LAMBDA e : e.enabled)

\* C14 (as stated): hits + misses equals the request count, and the cache-read
\* sum equals the sum of the cache-read tokens of every processCacheUsage call
\* made since the last reset.
SumsCoverEveryCall ==
    /\ sessionStats.hits + sessionStats.misses = sessionStats.requests
    /\ sessionStats.cacheReadTokens = SumCacheRead(callLog, TRUE)

\* C14 (amended): hits + misses equals the request count, and the cache-read
\* sum equals the sum of the cache-read tokens of every processCacheUsage call
\* made, since the last reset, while the monitor was enabled.
SumsCoverEnabledCalls ==
    /\ sessionStats.hits + sessionStats.misses = sessionStats.requests
    /\ sessionStats.requests = Len(Recorded)
    /\ sessionStats.cacheReadTokens = SumCacheRead(callLog, FALSE)

\* C14 witness: after a reset, hits and misses were recorded and a call with
\* cache-read tokens was made while the monitor was off.
RecordedAroundDisabledCall ==
    /\ lastCacheHitTime # NoTime
    /\ sessionStats.hits >= 1 /\ sessionStats.misses >= 1
    /\ sessionStats.cacheReadTokens >= 2
    /\ \E i \in 1..Len(callLog) :
           ~callLog[i].enabled /\ NormCacheRead(callLog[i].usage) > 0

\* C15: the history never holds more than HISTORY_LIMIT entries, and it is the
\* last min(N, HISTORY_LIMIT) of the N records in arrival order.
HistoryKeepsLastHundred ==
    LET h == sessionStats.history
        n == Len(Recorded)
    IN /\ Len(h) <= HISTORY_LIMIT
       /\ Len(h) = (IF n > HISTORY_LIMIT THEN HISTORY_LIMIT ELSE n)
       /\ \A i \in 1..Len(h) :
              LET r == Recorded[n - Len(h) + i]
              IN /\ h[i].cacheRead = NormCacheRead(r.usage)
                 /\ h[i].cacheWrite = NormCacheWrite(r.usage)
                 /\ h[i].input = NormInput(r.usage)
                 /\ h[i].output = NormOutput(r.usage)
       /\ \A i \in 1..(Len(h) - 1) : h[i].timestamp < h[i + 1].timestamp

\* C15 witness: more than HISTORY_LIMIT records arrived and the first ones are gone.
HistoryOverflowed ==
    /\ Len(Recorded) > HISTORY_LIMIT + 1
    /\ Len(sessionStats.history) = HISTORY_LIMIT
    /\ sessionStats.history[1].input = Len(Recorded) - HISTORY_LIMIT + 1

\* Number of misses at the end of the recorded calls e[1..k].
RECURSIVE MissRun(_, _)
MissRun(e, k) ==
    IF k = 0 \/ NormCacheRead(e[k].usage) > 0 THEN 0 ELSE 1 + MissRun(e, k - 1)

\* C16: consecutiveMisses is the length of the run of misses that ends at the
\* last record (0 right after a hit), and the alert was emitted on a record
\* exactly when that record made the run as long as the threshold; calls made
\* while the monitor was off emit nothing.
AlertOncePerMissRun ==
    /\ sessionStats.consecutiveMisses = MissRun(Recorded, Len(Recorded))
    /\ \A k \in 1..Len(Recorded) :
           Recorded[k].alert <=> MissRun(Recorded, k) = consecutiveMissWarning
    /\ \A i \in 1..Len(callLog) : callLog[i].alert => callLog[i].enabled
    /\ lastToast = "consecutive-misses" =>
           sessionStats.consecutiveMisses = consecutiveMissWarning

\* C16 witness: a run of misses went past the threshold with one alert, then a hit.
MissRunPastThresholdThenHit ==
    /\ Len(Recorded) = consecutiveMissWarning + 2
    /\ Recorded[consecutiveMissWarning].alert
    /\ ~Recorded[consecutiveMissWarning + 1].alert
    /\ MissRun(Recorded, consecutiveMissWarning + 1) = consecutiveMissWarning + 1
    /\ sessionStats.consecutiveMisses = 0
    /\ sessionStats.hits = 1

\* The call the step has just logged was recorded by the monitor.
RecordedStep == monitorEnabled /\ Len(callLog') = Len(callLog) + 1

\* C19: the savings a record adds is max(0, tokens * input - tokens * cacheRead)
\* per million tokens at the prices of the configured model, or of the default
\* model when the configured key is not in the table; a million cache-read
\* tokens at 3.00 / 0.30 save 2.70.
SavingsPerRecord ==
    /\ [][RecordedStep =>
            LET tokens == NormCacheRead(callLog'[Len(callLog')].usage)
                price == IF pricingModel \in DOMAIN PRICING_MODELS
                         THEN PRICING_MODELS[pricingModel]
                         ELSE PRICING_MODELS["claude-sonnet-4"]
                delta == tokens * price.input - tokens * price.cacheRead
            IN sessionStats'.savings - sessionStats.savings
                   = (IF delta > 0 THEN delta ELSE 0)]_vars
    /\ [](/\ PRICING_MODELS["claude-sonnet-4"].input = 300
          /\ PRICING_MODELS["claude-sonnet-4"].cacheRead = 30
          /\ calculateSavings(TOKENS_PER_MILLION, "claude-sonnet-4") = 270 * TOKENS_PER_MILLION
          /\ calculateSavings(TOKENS_PER_MILLION, "custom") = 270 * TOKENS_PER_MILLION)

\* C19 witness: savings were added under a pricing key that is not in the table.
SavedUnderUnknownModel ==
    /\ pricingModel \notin DOMAIN PRICING_MODELS
    /\ sessionStats.savings > 0
    /\ sessionStats.history[Len(sessionStats.history)].savings > 0

\* ---- stream and extractor properties

\* The usage objects carried by the complete lines of text, in order.
RECURSIVE UsagesOf(_)
UsagesOf(lines) ==
    IF lines = <<>> THEN <<>>
    ELSE LET frame == lineFrame(Head(lines))
             usage == IF frame = "none" THEN NullObject
                      ELSE extractUsageFromObject(FrameObject[frame])
         IN (IF usage = NullObject THEN <<>> ELSE <<usage>>) \o UsagesOf(Tail(lines))

UsageFrames == UsagesOf(Front(Split(streamText)))

Populated == usageData # NullObject /\ DOMAIN usageData # {}

\* C17: the accumulator is null exactly while no complete line has carried
\* usage; processCacheUsage is called only by the step that ends a stream, once
\* and with the accumulator when it has a field, and not at all when it has
\* none; so no stream makes more than one call.
StreamRecordsOnce ==
    /\ [](/\ (usageData = NullObject) <=> (UsageFrames = <<>>)
          /\ Len(callLog) <= streams - (IF streamOpen THEN 1 ELSE 0))
    /\ [][callLog' # callLog => streamOpen /\ ~streamOpen']_vars
    /\ [][streamEnd =>
            IF Populated
            THEN /\ Len(callLog') = Len(callLog) + 1
                 /\ callLog'[Len(callLog')].usage = usageData
                 /\ sessionStats'.requests = sessionStats.requests + 1
            ELSE callLog' = callLog /\ sessionStats' = sessionStats]_vars

\* C17 witness: a stream whose two usage-bearing frames were reported in one call.
TwoFramesOneRecord ==
    /\ ~streamOpen
    /\ Len(UsageFrames) = 2
    /\ Len(callLog) = 1
    /\ callLog[1].usage = usageData
    /\ sessionStats.requests = 1

UsageKeys == {"cache_read_input_tokens", "cache_creation_input_tokens", "input_tokens",
              "output_tokens"}

\* The values frames give field k, nulls left out, in arrival order.
RECURSIVE ValuesOf(_, _)
ValuesOf(frames, k) ==
    IF frames = <<>> THEN <<>>
    ELSE (IF Field(Head(frames), k) \in {JsUndefined, JsNull} THEN <<>>
          ELSE <<Head(frames)[k]>>) \o ValuesOf(Tail(frames), k)

RECURSIVE LastNonZero(_)
LastNonZero(vals) ==
    IF vals = <<>> THEN 0
    ELSE IF vals[Len(vals)] # 0 THEN vals[Len(vals)]
    ELSE LastNonZero(SubSeq(vals, 1, Len(vals) - 1))

FrameZeroCache == [cache_read_input_tokens |-> 0, input_tokens |-> 100]
FrameWithCache == [cache_read_input_tokens |-> 500, input_tokens |-> 100]

\* C18: each field of the accumulator is the last non-zero value the frames
\* gave it, or 0 when they gave it only zeros (and is missing when they gave
\* it nothing); {cacheRead 0, input 100} and {cacheRead 500, input 100} merge
\* to {cacheRead 500, input 100} in either order.
MergeKeepsLastNonZero ==
    /\ \A k \in UsageKeys :
           LET vals == ValuesOf(UsageFrames, k)
           IN IF vals = <<>> THEN usageData = NullObject \/ k \notin DOMAIN usageData
              ELSE k \in DOMAIN usageData /\ usageData[k] = LastNonZero(vals)
    /\ usageData # NullObject => DOMAIN usageData \subseteq UsageKeys
    /\ mergeUsage(mergeUsage(<<>>, FrameZeroCache), FrameWithCache) = FrameWithCache
    /\ mergeUsage(mergeUsage(<<>>, FrameWithCache), FrameZeroCache) = FrameWithCache

\* C18 witness: a zero arrived for a field after a non-zero value and the
\* non-zero value is what the accumulator holds.
ZeroAfterNonZeroKept ==
    /\ Len(UsageFrames) = 2
    /\ UsageFrames[1].cache_read_input_tokens = 500
    /\ UsageFrames[2].cache_read_input_tokens = 0
    /\ usageData.cache_read_input_tokens = 500

\* obj carries no usage in any place the extractor looks at.
NoUsageLikeField(obj) ==
    /\ ~HasObject(obj, "usage")
    /\ ~HasNestedUsage(obj, "message")
    /\ ~HasObject(obj, "x_oaicompat_usage")
    /\ "cache_read_input_tokens" \notin DOMAIN obj
    /\ "cache_creation_input_tokens" \notin DOMAIN obj
    /\ ~HasNestedUsage(obj, "response")
    /\ ~HasNestedUsage(obj, "data")

\* obj is a message_start envelope with the example usage under message.
IsStartEnvelope(obj) ==
    /\ "type" \in DOMAIN obj /\ obj.type = "message_start"
    /\ ~HasObject(obj, "usage")
    /\ HasNestedUsage(obj, "message")

\* C20: for a message_start envelope the extractor returns message.usage, which
\* normalises to cacheReadTokens 200 and inputTokens 50 for the example; for an
\* object with no usage in any recognised place, such as {foo: bar}, it returns
\* null.
ExtractorFindsEnvelope ==
    /\ extracted # Pending /\ IsStartEnvelope(parsed) =>
           /\ extracted = parsed.message.usage
           /\ NormCacheRead(extracted) = 200 /\ NormInput(extracted) = 50
           /\ NormCacheWrite(extracted) = 0 /\ NormOutput(extracted) = 0
    /\ extracted # Pending /\ NoUsageLikeField(parsed) => extracted = NullObject
    /\ extracted = NullObject => NoUsageLikeField(parsed)
    /\ extractUsageFromObject([type |-> "message_start",
                               message |-> [usage |-> ExampleUsage]]) = ExampleUsage
    /\ extractUsageFromObject([foo |-> "bar"]) = NullObject

\* C20 witness: the extractor has returned the usage of a message_start envelope.
EnvelopeExtracted ==
    /\ IsStartEnvelope(parsed)
    /\ "foo" \notin DOMAIN parsed
    /\ extracted = ExampleUsage

\* ---- reset and interception properties

\* No call has been recorded since the last reset.
FreshlyReset == lastToast = "statistics-reset" /\ callLog = <<>>

\* C21: a reset leaves, in its one step, every statistic zero, the history
\* empty and the last-hit time null, and changes nothing else of the monitor;
\* a reset applied to the state a reset has left changes nothing at all.
ResetZeroesAndIsIdempotent ==
    /\ [][resetCacheStats =>
            /\ sessionStats' = EmptyStats
            /\ sessionStats'.history = <<>>
            /\ lastCacheHitTime' = NoTime
            /\ UNCHANGED <<monitorSettings, setupVars, outsideMonitor>>]_vars
    /\ [][resetCacheStats /\ FreshlyReset => UNCHANGED vars]_vars
    /\ [](FreshlyReset => sessionStats = EmptyStats /\ lastCacheHitTime = NoTime)

\* C21 witness: a reset has just run, with the monitor switched off and another
\* pricing selected, and the statistics are zero.
ResetAfterRecords ==
    /\ FreshlyReset
    /\ sessionStats = EmptyStats
    /\ lastCacheHitTime = NoTime
    /\ pricingModel # DefaultPricingModel
    /\ ~monitorEnabled

\* C22: fetch is wrapped by at most one interception layer (the function saved
\* is never the wrapper itself, and the wrapper is in place exactly while a
\* function is saved); an install over an installed interceptor changes
\* nothing; an uninstall puts back the function found by the first install.
InterceptionSingleLayer ==
    /\ [](/\ originalFetch # InterceptorFetch
          /\ (windowFetch = InterceptorFetch) <=> (originalFetch = NativeFetch)
          /\ (windowFetch = NativeFetch) <=> (originalFetch = NoFetch))
    /\ [][originalFetch # NoFetch /\ (init \/ setMonitorEnabled(TRUE)) =>
            UNCHANGED <<windowFetch, originalFetch>>]_vars
    /\ [][cleanup => windowFetch' = NativeFetch /\ originalFetch' = NoFetch]_vars

\* C22 witness: the interceptor was installed, installed again when the monitor
\* was switched back on, and then removed: fetch is the native one.
RemovedAfterSecondInstall ==
    /\ windowFetch = NativeFetch
    /\ originalFetch = NoFetch
    /\ monitorEnabled
    /\ \E i \in 1..Len(callLog) : ~callLog[i].enabled

\* ---- capture properties

\* A GENERATION_ENDED capture with any chat length.
Capture == \E len \in 0..MaxChatLen : capturePromptData(len)

\* C23: while the feature is disabled a capture leaves the attempt count, the
\* current identity, the captured context, the fire timer and the countdown
\* as they are.
DisabledCaptureIsNoOp ==
    [][Capture /\ ~enabled =>
         UNCHANGED <<refreshCount, currentChatId, lastPromptData, timerVars>>]_vars

\* C23 witness: the feature is disabled while a context captured earlier and a
\* spent attempt are held and no timer is live: what a capture must leave alone.
DisabledWithContextHeld ==
    /\ ~enabled
    /\ lastPromptData # NoData
    /\ refreshCount > 0
    /\ ~stopRequested
    /\ timeouts = {} /\ intervals = {}

\* C24: a capture of a non-empty chat under an identity other than the current
\* one, with the feature enabled, sets the attempt count to 0 and the current
\* identity to the new one, stores the new context and arms one fire timer and
\* one countdown for the full interval.
NewIdentityStartsFresh ==
    [][\A len \in 1..MaxChatLen :
          capturePromptData(len) /\ enabled /\ getCurrentChatId # currentChatId =>
              /\ refreshCount' = 0
              /\ currentChatId' = activeChat
              /\ lastPromptData' = [chatId |-> activeChat, messageCount |-> len]
              /\ refresherActive'
              /\ secondsRemaining' = interval \div MS_PER_SECOND
              /\ RefreshTimeouts(timeouts') =
                     {[id |-> refreshTimer', kind |-> "refresh", delay |-> interval]}
              /\ intervals' = {countdownInterval'}]_vars

\* C24 witness: conversation B was captured while a refresh sent for A is still
\* in flight; it holds a zero count and an armed timer.
FreshBudgetAfterSwitch ==
    /\ currentChatId = "B"
    /\ lastPromptData.chatId = "B"
    /\ pending["A"] > 0
    /\ refreshCount = 0
    /\ RefreshTimeouts(timeouts) # {}

\* C25: once the budget of a chat has run out, and for as long as the host keeps
\* showing that chat, no fire timer and no countdown is live and no handler
\* invokes another refresh-send, whatever captures, stop clicks or other events follow.
ExhaustionIsTerminal ==
    /\ [](exhaustedFor # NotExhausted => NoFireTimer(timeouts) /\ intervals = {})
    /\ [][exhaustedFor # NotExhausted /\ exhaustedFor' # NotExhausted
            => InFlight' <= InFlight]_vars

\* C26: when every refresh-send fails, the refresh-sends that follow one capture
\* stay below a bound: they never number MaxSends, which is more than any
\* budget maxRefreshes the settings allow here.
RetryIsBounded == sendsSinceCapture < MaxSends

RestsAtBudget == refreshCount = maxRefreshes /\ NoFireTimer(timeouts) /\ intervals = {}

\* C27: with the feature enabled, the chat unchanged and every refresh-send
\* succeeding, once a context has been captured and no further capture comes,
\* the scheduler ends up, for good, with refreshCount equal to maxRefreshes and
\* no fire timer or countdown live.
QuiescesAtBudget ==
    \/ []<><<captureEvent>>_vars
    \/ [](lastPromptData = NoData)
    \/ <>[]RestsAtBudget

\* C28: secondsRemaining is never negative, and the countdown decrements it
\* only while a fire timer is armed: not while a refresh-send is in flight and
\* not during the failure backoff.
CountdownOnlyWhileArmed ==
    /\ [](secondsRemaining >= 0)
    /\ [][(\E i \in intervals : countdownTick(i)) => ~NoFireTimer(timeouts)]_vars

\* C29: the session statistics never count more requests than the host has
\* made: every API request, streamed or not, adds at most one to
\* sessionStats.requests, whichever handlers see it.
OneRecordPerRequest == sessionStats.requests <= apiRequests.made

\* The shapes in their order of priority: 1 direct usage, 2 message.usage,
\* 3 the aggregator's x_oaicompat_usage, 4 cache fields at the root,
\* 5 response.usage, 6 data.usage.
Shapes == 1..6

MatchesShape(obj, n) ==
    CASE n = 1 -> HasObject(obj, "usage")
      [] n = 2 -> HasNestedUsage(obj, "message")
      [] n = 3 -> HasObject(obj, "x_oaicompat_usage")
      [] n = 4 -> \/ Field(obj, "cache_read_input_tokens") # JsUndefined
                  \/ Field(obj, "cache_creation_input_tokens") # JsUndefined
      [] n = 5 -> HasNestedUsage(obj, "response")
      [] OTHER -> HasNestedUsage(obj, "data")

ShapeUsage(obj, n) ==
    CASE n = 1 -> obj.usage
      [] n = 2 -> obj.message.usage
      [] n = 3 -> obj.x_oaicompat_usage
      [] n = 4 -> [k \in {"cache_read_input_tokens", "cache_creation_input_tokens",
                          "input_tokens", "output_tokens"} |-> Field(obj, k)]
      [] n = 5 -> obj.response.usage
      [] OTHER -> obj.data.usage

MatchingShapes(obj) == {n \in Shapes : MatchesShape(obj, n)}

\* C30: the extractor returns the usage of the first shape, in the order direct
\* usage, message.usage, aggregator key, root cache fields, response.usage,
\* data.usage, that the object matches, and null when it matches none.
ExtractorFollowsPriority ==
    extracted # Pending =>
        LET ms == MatchingShapes(parsed)
        IN IF ms = {} THEN extracted = NullObject
           ELSE extracted = ShapeUsage(parsed, CHOOSE n \in ms : \A m \in ms : n <= m)

\* C30 witness: the extractor has run on an object that has message.usage, cache
\* fields at its root and data.usage, but no direct usage, and returned message.usage.
SeveralShapesRanked ==
    /\ extracted # Pending
    /\ {2, 4, 6} \subseteq MatchingShapes(parsed)
    /\ 1 \notin MatchingShapes(parsed)
    /\ extracted = parsed.message.usage

\* The key test of a search that descends under every key containing "usage", "token" or
\* "cache", whatever its case.
KeyContainsUsageTokenCache(key) ==
    \/ Includes(ToLowerCase(KeySpelling[key]), <<"u", "s", "a", "g", "e">>)
    \/ Includes(ToLowerCase(KeySpelling[key]), <<"t", "o", "k", "e", "n">>)
    \/ Includes(ToLowerCase(KeySpelling[key]), <<"c", "a", "c", "h", "e">>)

\* What handleNonStreamingResponse has handed to processCacheUsage, null if nothing.
RecordedUsage == IF callLog = <<>> THEN NullObject ELSE callLog[1].usage

\* C31: for a response that matches none of the priority shapes, the search
\* descends, to depth 5 at most, into exactly the children whose key contains
\* "usage", "token" or "cache" in any case, and what it finds is recorded.
DeepSearchByKeyName ==
    extracted # Pending /\ extracted = NullObject =>
        RecordedUsage = deepFind(parsed, 0, {k \in DOMAIN KeySpelling :
                                           KeyContainsUsageTokenCache(k)})

\* The line reaches JSON.parse and parses.
Parses(line) == lineFrame(line) # "none"

\* The complete lines the reader has delivered so far.
CompleteLines == Front(Split(streamText))

\* C32: a line that does not parse changes nothing: the accumulator is what
\* the well-formed lines delivered so far give on their own, a read never ends
\* the stream, and at the end of the stream a non-empty accumulator is recorded.
BadLinesSwallowed ==
    /\ [](usageData = processLines(SelectSeq(CompleteLines, Parses), NullObject))
    /\ [][(\E chunk \in Chunks(MaxStreamLen) : readChunk(chunk)) => streamOpen']_vars
    /\ [][streamEnd /\ usageData # NullObject /\ DOMAIN usageData # {}
            => callLog' = Append(callLog, [usage |-> usageData, enabled |-> monitorEnabled,
                                           alert |-> FALSE])]_vars

\* C32 witness: a stream whose first line was the head of a JSON text alone and
\* whose second line was a well-formed frame has ended, and the usage of the
\* second line was recorded.
UsageAfterBadLineRecorded ==
    /\ streamText = <<"{raw", NL, "data: {delta}", NL>>
    /\ ~streamOpen
    /\ Len(callLog) = 1
    /\ callLog[1].usage = FrameObject["delta"].usage

\* How many of the records taken since the last reset carried usage u.
RECURSIVE Copies(_, _)
Copies(u, log) ==
    IF log = <<>> THEN 0
    ELSE (IF Head(log).enabled /\ Head(log).usage = u THEN 1 ELSE 0) + Copies(u, Tail(log))

\* The usage records taken since the last reset, as a multiset: the order of
\* arrival is forgotten.
BagOfUsages(log) == [u \in UsageSamples |-> Copies(u, log)]

\* What one usage record contributes to a total.
Contribution(usage, total) ==
    CASE total = "requests" -> 1
      [] total = "hits" -> IF NormCacheRead(usage) > 0 THEN 1 ELSE 0
      [] total = "misses" -> IF NormCacheRead(usage) > 0 THEN 0 ELSE 1
      [] total = "cacheReadTokens" -> NormCacheRead(usage)
      [] total = "cacheWriteTokens" -> NormCacheWrite(usage)
      [] total = "inputTokens" -> NormInput(usage)
      [] total = "outputTokens" -> NormOutput(usage)

RECURSIVE BagTotal(_, _, _)
BagTotal(usages, bag, total) ==
    IF usages = {} THEN 0
    ELSE LET u == CHOOSE x \in usages : TRUE
         IN bag[u] * Contribution(u, total) + BagTotal(usages \ {u}, bag, total)

AdditiveTotals ==
    {"requests", "hits", "misses", "cacheReadTokens", "cacheWriteTokens",
     "inputTokens", "outputTokens"}

\* C33: the request, hit and miss counts and the four token sums are the sums,
\* over the multiset of usage records taken since the last reset, of what each
\* record contributes; the order in which the records arrived plays no part.
StatsAreSumsOverTheBag ==
    LET bag == BagOfUsages(callLog)
    IN \A total \in AdditiveTotals :
           sessionStats[total] = BagTotal(DOMAIN bag, bag, total)

\* C33 witness: a hit and then a miss were recorded; the totals are those of the
\* other order, and only the run of misses tells the two orders apart.
HitThenMissRecorded ==
    /\ Len(callLog) = 2
    /\ callLog[1].enabled /\ callLog[2].enabled
    /\ NormCacheRead(callLog[1].usage) > 0
    /\ NormCacheRead(callLog[2].usage) = 0
    /\ NormInput(callLog[1].usage) # NormInput(callLog[2].usage)
    /\ sessionStats.hits = 1 /\ sessionStats.misses = 1
    /\ sessionStats.consecutiveMisses = 1

\* C34: when the CHAT_CHANGED handler finds another conversation open than the
\* one captured (the case in which it zeroes refreshCount), it leaves
\* consecutiveMisses at 0 as well.
ChatChangeClearsMisses ==
    [][onChatChanged /\ getCurrentChatId # currentChatId
          => sessionStats'.consecutiveMisses = 0]_vars

\* A handler of the scheduler runs: capture, timer fire (and the retry timer),
\* refresh result, conversation change, stop, disable.
SchedulerHandler ==
    \/ \E len \in 0..MaxChatLen : capturePromptData(len)
    \/ \E t \in timeouts : sendCacheRefresh(t) \/ backoffElapsed(t)
    \/ \E c \in ChatIdOrNull : sendResolved(c) \/ sendRejected(c)
    \/ \E i \in intervals : countdownTick(i)
    \/ onChatChanged
    \/ stopClicked
    \/ setEnabled(FALSE)

\* A handler of the accounting runs: a usage record or a reset.
AccountingHandler ==
    \/ \E u \in SessionUsages : processCacheUsage(u)
    \/ resetCacheStats

OneSendInFlight == InFlight <= 1

\* The stop handler's own step: no fire timer and no countdown is left,
\* refreshCount is 0, the captured context and the identity are as before.
StopCancelsAndClears ==
    [][stopClicked =>
          /\ NoFireTimer(timeouts') /\ intervals' = {}
          /\ refreshTimer' = NoTimer /\ countdownInterval' = NoTimer
          /\ refreshCount' = 0
          /\ lastPromptData' = lastPromptData
          /\ currentChatId' = currentChatId]_vars

\* The first capture after a stop, taken for the conversation that was current
\* at the stop, with the refresher enabled and a non-empty chat.
CaptureAfterStop ==
    /\ stopRequested
    /\ enabled
    /\ currentChatId # NoChat
    /\ getCurrentChatId = currentChatId
    /\ \E len \in 1..MaxChatLen : capturePromptData(len)

\* C37: a stop request cancels the fire timer and the countdown and sets
\* refreshCount to 0, leaving lastPromptData and currentChatId as they are; and
\* the next capture for the same conversation arms the timer with refreshCount
\* still 0, the whole budget ahead of it.
StopRestoresBudget ==
    /\ StopCancelsAndClears
    /\ [][CaptureAfterStop =>
              /\ refreshCount' = 0
              /\ ~NoFireTimer(timeouts')
              /\ intervals' # {}]_vars

NothingArmedAtMaximum ==
    /\ enabled
    /\ refreshCount = maxRefreshes
    /\ lastPromptData # NoData
    /\ lastPromptData.messageCount = MaxChatLen
    /\ NoFireTimer(timeouts) /\ intervals = {}

\* What the lines of the delivered text that a newline ends accumulate to.
TerminatedUsage == processLines(Front(Split(streamText)), NullObject)

\* C39: when the reader signals the end, the text after the last newline is
\* not parsed: the accumulator stays as it is, and what is recorded is what the
\* newline-terminated lines gave, nothing at all when they gave nothing.
UnterminatedTailIgnored ==
    [][streamEnd =>
          /\ usageData' = usageData
          /\ buffer' = buffer
          /\ IF TerminatedUsage = NullObject \/ DOMAIN TerminatedUsage = {}
             THEN callLog' = callLog /\ sessionStats' = sessionStats
             ELSE /\ Len(callLog') = Len(callLog) + 1
                  /\ callLog'[Len(callLog')].usage = TerminatedUsage]_vars

\* C39 witness: a stream ended whose only usage stood in a last line with no
\* newline after it; the line is still in the buffer and nothing was recorded.
TailOnlyUsageDropped ==
    /\ streams = 1
    /\ ~streamOpen
    /\ streamText = <<"data: {delta}">>
    /\ buffer = streamText
    /\ lineFrame(buffer) = "delta"
    /\ usageData = NullObject
    /\ callLog = <<>>
    /\ sessionStats = EmptyStats

\* C40: a processCacheUsage call made while monitorEnabled is false leaves the
\* statistics with their history and the last-hit time as they are and asks for
\* no notification; switching the monitor off leaves the interceptor on
\* window.fetch, and streamed responses are read and accumulated all the same.
DisabledMonitorRecordsNothing ==
    /\ [][(~monitorEnabled /\ Len(callLog') = Len(callLog) + 1) =>
              /\ sessionStats' = sessionStats
              /\ lastCacheHitTime' = lastCacheHitTime
              /\ lastToast' = lastToast
              /\ ~callLog'[Len(callLog')].alert]_vars
    /\ [][setMonitorEnabled(FALSE) =>
              /\ windowFetch' = InterceptorFetch
              /\ originalFetch' = originalFetch
              /\ UNCHANGED <<streamOpen, buffer, usageData>>]_vars
    /\ [](~monitorEnabled => windowFetch = InterceptorFetch /\ usageData = TerminatedUsage)

\* C40 witness: a frame with usage was read from a stream and handed over at
\* its end with the monitor off: the interceptor is installed, nothing was counted.
UsageReadButNotCounted ==
    /\ ~monitorEnabled
    /\ ~streamOpen
    /\ streams = 1
    /\ windowFetch = InterceptorFetch
    /\ streamText = <<"data: {delta}", NL>>
    /\ callLog = <<[usage |-> FrameObject["delta"].usage, enabled |-> FALSE,
                    alert |-> FALSE]>>
    /\ sessionStats = EmptyStats
    /\ lastCacheHitTime = NoTime

====
